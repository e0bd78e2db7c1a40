-------------------------- MODULE ContainerContext --------------------------
(***************************************************************************)
(* container.go: which container a process is in, by its cgroup file.      *)
(*                                                                         *)
(* A file is a sequence of lines, a line [parts, path] of the parts that   *)
(* its first two colons make and the segments of the third, outermost      *)
(* first.  A segment [prefix, id] is told apart by how it begins; ".scope" *)
(* at its end is cut off and left out here.                                *)
(***************************************************************************)
EXTENDS Naturals, SequencesExt

NoContainer == "none"
KnownPrefixes == {"docker-", "crio-", "cri-containerd-"}

(* ids are [name, hex, length].  No id is spelled like NoContainer, which    *)
(* stands for the code's nil.                                               *)
IsCgroupFile(file) ==
  file \in Seq([parts : 1..3,
               path : Seq([prefix : STRING,
                           id : [name : STRING \ {NoContainer}, hex : BOOLEAN, length : Nat]])])

isHexID(id) == id.hex /\ id.length \in 12..64

(* With no known prefix the whole segment has to be an id. *)
IsContainer(segment) == segment.prefix \in KnownPrefixes \union {""} /\ isHexID(segment.id)

(* Slip: the outermost id of a line is taken.                               *)
ContainerOf_outermost(line) ==
  LET i == SelectInSeq(line.path, IsContainer)
  IN  IF line.parts # 3 \/ i = 0 THEN NoContainer ELSE line.path[i].id.name

ContainerOf(line) ==
  LET i == SelectLastInSeq(line.path, IsContainer)
  IN  IF line.parts # 3 \/ i = 0 THEN NoContainer ELSE line.path[i].id.name

(* The first line that names one; an empty file stands for one that cannot  *)
(* be opened.                                                               *)
containerContext(lines) ==
  LET i == SelectInSeq(lines, LAMBDA line : ContainerOf(line) # NoContainer)
  IN  IF i = 0 THEN NoContainer ELSE ContainerOf(lines[i])
=============================================================================
