------------------------------- MODULE Files -------------------------------
(***************************************************************************)
(* What util.Unzip and util.CopyAll make of an archive (pkg/util/zip.go,   *)
(* pkg/util/copy.go) when the disk does its part.  A tree maps the paths   *)
(* below some folder to Folder or to the data of a file.  An archive is a  *)
(* sequence of entries.  Permissions and symbolic links are left out:      *)
(* Unzip creates none.                                                     *)
(***************************************************************************)
EXTENDS Naturals, Sequences, SequencesExt

Folder == "folder"

Empty == [p \in {} |-> Folder]

IsSeq(s) == s \in Seq(Range(s))

\* A path is the sequence of names that path.Join leaves of a text: it drops empty
\* names and ".", and a ".." with the name before it.  A text that leads out of its
\* folder, where path.Join leaves "..", is not a path of this module.
IsPath(p) == IsSeq(p) /\ ".." \notin Range(p)

Entry(path, data) == [path |-> path, data |-> data]

IsFolder(tree, p) == p = << >> \/ (p \in DOMAIN tree /\ tree[p] = Folder)

\* The folders on the way to p, and p.
Way(p) == {SubSeq(p, 1, n) : n \in 1..Len(p)}

With(tree, paths, data) ==
  [p \in DOMAIN tree \cup paths |-> IF p \in paths THEN data ELSE tree[p]]

Done(tree) == [ok |-> TRUE, tree |-> tree]
Failed(tree) == [ok |-> FALSE, tree |-> tree]

MkdirAll(tree, p) ==
  IF \A q \in Way(p) : q \in DOMAIN tree => tree[q] = Folder
    THEN Done(With(tree, Way(p), Folder))
    ELSE Failed(tree)

KeepsFirst(tree, p, data) ==
  IF IsFolder(tree, Front(p)) /\ ~IsFolder(tree, p)
    THEN Done(IF p \in DOMAIN tree THEN tree ELSE With(tree, {p}, data))
    ELSE Failed(tree)

\* os.Create needs the folder, and replaces what a file had.
Create(tree, p, data) ==
  IF IsFolder(tree, Front(p)) /\ ~IsFolder(tree, p)
    THEN Done(With(tree, {p}, data))
    ELSE Failed(tree)

Extract(s, e) ==
  CASE ~s.ok                    -> s
    [] s.ok /\ e.data = Folder  -> MkdirAll(s.tree, e.path)
    [] OTHER                    -> Create(s.tree, e.path, e.data)

\* Entry after entry; the first error ends it, with what was extracted so far.
Unzip(archive) == FoldLeft(Extract, Done(Empty), archive)

\* The tree below folder p.
Below(tree, p) ==
  LET paths == {q \in DOMAIN tree : IsStrictPrefix(p, q)}
  IN  [r \in {SubSeq(q, Len(p) + 1, Len(q)) : q \in paths} |-> tree[p \o r]]

\* CopyFile leaves a file alone that exists.
CopyFiles(src, dst) ==
  [p \in DOMAIN src \cup DOMAIN dst |-> IF p \in DOMAIN dst THEN dst[p] ELSE src[p]]

\* CopyDir, which copies every folder in the source, wants a new one.
Collides(src, dst) == \E p \in DOMAIN src : Len(p) = 1 /\ src[p] = Folder /\ p \in DOMAIN dst

\* CopyAll: the contents of a folder into a folder that exists.
CopyAll(tree, source, dst) ==
  LET src == Below(tree, source)
  IN  IF IsFolder(tree, source) /\ ~Collides(src, dst)
        THEN Done(CopyFiles(src, dst))
        ELSE Failed(dst)
=============================================================================
