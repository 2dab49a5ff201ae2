----------------------------- MODULE OutputPath -----------------------------
(***************************************************************************)
(* Where a command may write (renderers/shared/output-path.mjs): the path  *)
(* is resolved through symbolic links, also where it does not exist yet,   *)
(* and refused when it would replace an input or another output, also on a *)
(* volume whose directories ignore case.                                   *)
(*                                                                         *)
(* A path is a sequence of names from the root.  A disk is                 *)
(*   [at |-> a function from the paths that exist to entries,              *)
(*    folds |-> the volumes that ignore case, silent |-> whether the probe *)
(*    of a directory's semantics fails]                                    *)
(* and an entry [kind, name (as created), ino, to (of a link)].            *)
(***************************************************************************)
EXTENDS Naturals, Sequences, SequencesExt

CONSTANTS FoldOf,     \* the lower case of each name
          ExtensionOf,
          MaxLinks    \* MAX_SYMLINK_DEPTH

Nowhere == [kind |-> "none", name |-> "", ino |-> 0, to |-> <<>>]
Loop == <<"a cycle of links">>

LastName(p) == p[Len(p)]
Upto(p, n) == SubSeq(p, 1, n)

(* The file system: under which names a path is found, and what is there.  *)
KeyOfPath(disk, p) ==
  [i \in DOMAIN p |-> IF i > 1 /\ p[1] \in disk.folds THEN FoldOf[p[i]] ELSE p[i]]
Entry(disk, p) ==
  LET k == KeyOfPath(disk, p) IN
  IF k \in DOMAIN disk.at THEN disk.at[k] ELSE Nowhere

(* canonicalize goes from the root to the first link, or to the first name *)
(* that does not exist; a link is followed and the rest appended to it,    *)
(* which may be done MaxLinks times.                                       *)
StopsAt(disk, p) ==
  Min({i \in DOMAIN p : Entry(disk, Upto(p, i)).kind \in {"none", "link"}} \cup {Len(p) + 1})

AtLink(disk, p) ==
  LET i == StopsAt(disk, p) IN i \in DOMAIN p /\ Entry(disk, Upto(p, i)).kind = "link"

Followed(disk, p) ==
  LET i == StopsAt(disk, p) IN
  IF AtLink(disk, p) THEN Entry(disk, Upto(p, i)).to \o SubSeq(p, i + 1, Len(p)) ELSE p

(* The names of what exists are taken as they were created.                *)
CanonicalFuturePath(disk, p) ==
  LET after[n \in 0..MaxLinks] == IF n = 0 THEN p ELSE Followed(disk, after[n - 1])
      end == after[MaxLinks]
  IN IF AtLink(disk, end) THEN Loop
     ELSE [i \in DOMAIN end |->
             IF i < StopsAt(disk, end) THEN Entry(disk, Upto(end, i)).name ELSE end[i]]

(* stat: the entry at the end of the links, if there is one.               *)
Stat(disk, p) ==
  LET c == CanonicalFuturePath(disk, p)
  IN IF c = Loop THEN Nowhere ELSE Entry(disk, c)

NearestDirectory(disk, p) ==
  Upto(p, Max({0} \cup {n \in 0..(Len(p) - 1) : Stat(disk, Upto(p, n)).kind = "directory"}))

(* Mutant: names are compared as they are written.                         *)
SpellingOnly(disk, dir) == FALSE

(* probeDirectorySemantics: a directory that cannot be probed is taken to  *)
(* ignore case.                                                            *)
IgnoresCase(disk, dir) ==
  disk.silent \/ (dir # <<>> /\ dir[1] \in disk.folds)

Relative(p, dir) == SubSeq(p, Len(dir) + 1, Len(p))
Folded(p) == [i \in DOMAIN p |-> FoldOf[p[i]]]

FuturePathsAlias(disk, p, q) ==
  LET left == CanonicalFuturePath(disk, p)
      right == CanonicalFuturePath(disk, q)
      dir == NearestDirectory(disk, left)
  IN \/ left = right
     \/ /\ dir = NearestDirectory(disk, right)
        /\ IgnoresCase(disk, dir)
        /\ Folded(Relative(left, dir)) = Folded(Relative(right, dir))

PathsAlias(disk, p, q) ==
  \/ FuturePathsAlias(disk, p, q)
  \/ LET l == Stat(disk, p)
         r == Stat(disk, q)
     IN l # Nowhere /\ l.ino = r.ino

Extension(p) == ExtensionOf[LastName(p)]
Inside(disk, cwd, p) ==
  LET c == CanonicalFuturePath(disk, cwd)
      t == CanonicalFuturePath(disk, p)
  IN Len(t) >= Len(c) /\ SubSeq(t, 1, Len(c)) = c

(* Mutant: the extension is only looked at as it was written.              *)
MetaMistakenWritten(disk, r) == r.source = "meta" /\ Extension(r.output) # "html"

MetaMistaken(disk, r) ==
  /\ r.source = "meta"
  /\ \/ r.absolute
     \/ Extension(r.output) # "html"
     \/ Extension(CanonicalFuturePath(disk, r.output)) # "html"
     \/ ~ Inside(disk, r.cwd, r.output)

(* resolveOutputPath: the verdict on a request.                            *)
ResolveOutputPath(disk, r) ==
  IF \E p \in {r.output, r.cwd} \cup r.inputs \cup r.others :
       CanonicalFuturePath(disk, p) = Loop THEN "symlink-cycle"
  ELSE IF MetaMistaken(disk, r) THEN "meta"
  ELSE IF \E p \in r.inputs : PathsAlias(disk, r.output, p) THEN "input-alias"
  ELSE IF \E p \in r.others : PathsAlias(disk, r.output, p) THEN "target-alias"
  ELSE IF /\ r.source = "cli"
          /\ \/ Extension(r.output) # r.extension
             \/ Extension(CanonicalFuturePath(disk, r.output)) # r.extension
       THEN "cli-extension"
  ELSE "ok"

-----------------------------------------------------------------------------
(* What the two ways of writing do to a disk: a rename replaces the name,  *)
(* writeFile follows it.  Directories that are missing are created.        *)
Parents(p) == {Upto(p, n) : n \in 1..(Len(p) - 1)}

With(disk, p, e) ==
  LET dirs == {KeyOfPath(disk, d) : d \in Parents(p)} \ DOMAIN disk.at
      k == KeyOfPath(disk, p)
  IN [disk EXCEPT !.at = [x \in DOMAIN @ \cup dirs \cup {k} |->
        IF x = k THEN e
        ELSE IF x \in dirs THEN
           [kind |-> "directory", name |-> LastName(x), ino |-> 98, to |-> <<>>]
        ELSE @[x]]]

NewFile(p, ino) == [kind |-> "file", name |-> LastName(p), ino |-> ino, to |-> <<>>]
RenamedTo(disk, p, ino) ==
  LET t == Append(CanonicalFuturePath(disk, Front(p)), LastName(p))
  IN With(disk, t, NewFile(t, ino))
WrittenTo(disk, p, ino) ==
  LET t == CanonicalFuturePath(disk, p) IN With(disk, t, NewFile(t, ino))

(* An accepted output can be written either way: every input still reads   *)
(* what it read, every other output can be written beside it without       *)
(* replacing it, and what a document names for itself lies inside the      *)
(* working directory and is a page.                                        *)
OutputHarmless(disk, r) ==
  LET Writes(p, ino) == {RenamedTo(disk, p, ino), WrittenTo(disk, p, ino)} IN
  ResolveOutputPath(disk, r) = "ok" =>
    \A after \in Writes(r.output, 90) :
      /\ \A p \in r.inputs : Stat(after, p).ino = Stat(disk, p).ino
      /\ \A p \in r.others :
           Stat(RenamedTo(after, p, 91), r.output).ino = 90
      /\ r.source = "meta" =>
           /\ Inside(after, r.cwd, r.output)
           /\ Extension(CanonicalFuturePath(after, r.output)) = "html"
=============================================================================
