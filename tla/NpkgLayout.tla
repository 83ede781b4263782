----------------------------- MODULE NpkgLayout ------------------------------
(***************************************************************************)
(* relayout of src/pkg/npkg_convert.py moves the files of an unpacked      *)
(* package into the layout of Arch: directories merge, so a file and a     *)
(* link to it may want the same path.  A path is the sequence of its names;*)
(* a tree maps the paths it has to RegularFile, or to what is written in a *)
(* symbolic link: [abs, up, to], a path from the root, or up directories   *)
(* above its own and then to.                                              *)
(***************************************************************************)
EXTENDS SequencesExt

CONSTANTS
  RegularFile,  \* a regular file
  NoPath,       \* nothing is at that path
  Triplet,      \* the name of a multiarch directory
  PathNames,    \* the paths there are, in a package or outside
  Targets,      \* what may be written in a link
  Trees         \* the unpacked packages to lay out

Below(p, d) == SubSeq(p, Len(d) + 1, Len(p))
LibDirs == {<<"lib">>, <<"lib64">>, <<"usr", "lib">>, <<"usr", "lib64">>}

\* TRIPLET, and then PREFIX_MOVES.
Flattened(p) ==
  IF \E d \in LibDirs : IsStrictPrefix(Append(d, Triplet), p)
  THEN LET d == CHOOSE d \in LibDirs : IsStrictPrefix(Append(d, Triplet), p)
       IN <<"usr", "lib">> \o Below(p, Append(d, Triplet))
  ELSE p
PrefixMoved(p) ==
  IF IsStrictPrefix(<<"usr", "sbin">>, p) THEN <<"usr", "bin">> \o Below(p, <<"usr", "sbin">>)
  ELSE IF p # <<>> /\ Len(p) > 1 /\ p[1] \in {"sbin", "bin"} THEN <<"usr", "bin">> \o Tail(p)
  ELSE IF p # <<>> /\ Len(p) > 1 /\ p[1] \in {"lib64", "lib"} THEN <<"usr", "lib">> \o Tail(p)
  ELSE p
arch_path(p) == PrefixMoved(Flattened(p))

\* An absolute target is rewritten as a path.  Of a relative one only the names
\* of multiarch directories go, so it may lead elsewhere from the link's new
\* place.
arch_link_target(l) ==
  IF l.abs THEN [l EXCEPT !.to = arch_path(@)]
  ELSE LET dir == SelectSeq(Front(l.to), LAMBDA n : n # Triplet)
       IN [l EXCEPT !.to = Append(dir, Last(@))]

\* Where a link at p leads; nothing is above the root.
Lands(p, l) ==
  IF l.abs THEN l.to
  ELSE LET depth == Len(p) - 1 IN SubSeq(p, 1, depth - l.up) \o l.to

ASSUME TreesAssumption ==
  /\ RegularFile \notin Targets /\ NoPath \notin Targets /\ RegularFile # NoPath
  /\ \A l \in Targets : /\ arch_link_target(l) \in Targets
                       /\ arch_link_target(arch_link_target(l)) = arch_link_target(l)
  /\ \A p \in PathNames : /\ arch_path(p) \in PathNames
                         /\ arch_path(arch_path(p)) = arch_path(p)
  /\ \A t \in Trees :
       /\ t \in [DOMAIN t -> {RegularFile, NoPath} \cup Targets]
       /\ \A p \in DOMAIN t : p \in PathNames /\ arch_path(p) \in DOMAIN t

VARIABLES
  tree,     \* path -> RegularFile, what a link there says, or NoPath
  toMove,   \* the paths os.walk has still to come to
  layout,   \* "moving" or "done"
  before    \* history: the tree as it was unpacked

layoutVars == <<tree, toMove, layout, before>>

IsLink(t, p) == t[p] \notin {NoPath, RegularFile}
Has(t, p) == t[p] # NoPath

LayoutInitAt(t) ==
  /\ tree = t /\ before = t
  /\ toMove = {p \in DOMAIN t : t[p] # NoPath}
  /\ layout = "moving"
LayoutInit == \E t \in Trees : LayoutInitAt(t)

\* What is at src once its target has been rewritten.
Rewritten(src) == IF IsLink(tree, src) THEN arch_link_target(tree[src]) ELSE tree[src]

\* A bug: whatever comes first to a path stays there.
MutWins(src, dst) == FALSE

\* A path is wanted twice: a real file wins over a link.
Wins(src, dst) == IsLink(tree, dst) /\ ~IsLink(tree, src)

\* os.walk comes to a directory after the directories in it; otherwise, and
\* among the names of one, in any order.  What has been moved to a directory it
\* has not listed yet it comes to once more, and changes nothing there.
Move(src) ==
  LET dst == arch_path(src)
      there == Has(tree, dst)
  IN /\ layout = "moving" /\ \A p \in toMove : ~IsStrictPrefix(Front(src), Front(p))
     /\ toMove' = toMove \ {src}
     /\ tree' = IF dst = src THEN [tree EXCEPT ![src] = Rewritten(src)]
                ELSE [tree EXCEPT ![src] = NoPath,
                        ![dst] = IF there /\ ~Wins(src, dst) THEN @ ELSE Rewritten(src)]
     /\ UNCHANGED <<layout, before>>

\* A link that names itself goes, if it is relative: an absolute target is
\* compared with a path below the staging directory.
Loops(p) ==
  /\ IsLink(tree, p) /\ ~tree[p].abs /\ tree[p].up < Len(p)
  /\ Lands(p, tree[p]) = p
Unloop ==
  /\ layout = "moving" /\ toMove = {}
  /\ layout' = "done"
  /\ tree' = [p \in DOMAIN tree |-> IF Loops(p) THEN NoPath ELSE tree[p]]
  /\ UNCHANGED <<toMove, before>>

LayoutNext == (\E src \in toMove : Move(src)) \/ Unloop
LayoutSpec == LayoutInit /\ [][LayoutNext]_layoutVars

-----------------------------------------------------------------------------
(* What is checked.  A root that npkg builds has links from the old        *)
(* directories to the new ones (make_skeleton, npkg_bootstrap.py:587): a   *)
(* path is looked up there under its new name.                             *)

\* Where the link at p leads in such a root.
Found(t, p) == arch_path(Lands(p, t[p]))

\* A link whose text says at its new place what it said, and that of every
\* link that comes to that place.  Of an absolute one it does, and of one within
\* its directory; a relative one that climbs out of a directory which is
\* flattened, as ../../share/doc in usr/lib/<triplet>, leads elsewhere from
\* there, and of two that come to one path and lead to different ones one goes.
SaysSame(p) ==
  \A q \in DOMAIN before :
    IsLink(before, q) /\ arch_path(q) = arch_path(p) =>
      arch_path(Lands(arch_path(p), arch_link_target(before[q]))) = Found(before, p)

\* A file is found from p, whatever set of paths holds p and where its links
\* lead; leads says where, and names the path itself for what leads nowhere.
Resolves(t, leads, p) ==
  \A S \in SUBSET DOMAIN t :
    p \in S /\ (\A x \in S : leads[x] \in DOMAIN t => leads[x] \in S)
      => \E x \in S : t[x] = RegularFile
LedBefore ==
  [p \in DOMAIN before |-> IF IsLink(before, p) /\ SaysSame(p) THEN Lands(p, before[p]) ELSE p]
LedNow == [p \in DOMAIN tree |-> IF IsLink(tree, p) THEN Found(tree, p) ELSE p]

\* Flattening loses nothing but the links whose text means something else where
\* they come to: every path that led to a file inside the package through the
\* others leads to one under its new name, whichever of a file and a link to it
\* is moved first; and no relative link is left naming itself (relayout,
\* npkg_convert.py:430).
RelayoutResolves ==
  layout = "done" =>
    /\ \A p \in DOMAIN before :
         Resolves(before, LedBefore, p) => Resolves(tree, LedNow, arch_path(p))
    /\ \A p \in DOMAIN tree : ~Loops(p)
=============================================================================
