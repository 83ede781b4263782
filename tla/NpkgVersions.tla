---------------------------- MODULE NpkgVersions ----------------------------
(***************************************************************************)
(* Versions and requirements of npkg (src/pkg/npkg.py).  A version is what *)
(* stands before its first dash and what stands after it, each a sequence  *)
(* of runs: <<0, n>> a number, <<1, w>> a word, w its rank among the words.*)
(* Which of ". - _ + ~" separates two runs makes no difference to the      *)
(* code, which takes 2.0~rc1 for newer than 2.0, and is left out.  A       *)
(* requirement is [name, op, ver, any]; op "" asks for no version, any is  *)
(* TRUE for Debian's "-." ("any revision of ver").                         *)
(***************************************************************************)
EXTENDS Naturals, Sequences

Version(up, rev) == [up |-> up, rev |-> rev]
Unversioned == Version(<<>>, <<>>)
Need(n) == [name |-> n, op |-> "", ver |-> Unversioned, any |-> FALSE]

\* What they are made of.  Nothing but "-." names any revision.
RunSet == {0, 1} \X Nat
IsVersion(v) == /\ v = Version(v.up, v.rev)
                /\ v.up \in Seq(RunSet) /\ v.rev \in Seq(RunSet)
IsRequirement(r) ==
  /\ r.op \in {"", "==", ">=", "<=", ">", "<"} /\ r.any \in BOOLEAN /\ IsVersion(r.ver)
  /\ r.any => r.ver.rev = <<>>

version_key(v) == v.up \o v.rev

RunLess(p, q) == p[1] < q[1] \/ (p[1] = q[1] /\ p[2] < q[2])

\* Python's order of lists: the first difference decides, a prefix is less.
KeyLess(a, b) ==
  \E i \in 1 .. Len(b) :
    /\ i <= Len(a) + 1
    /\ \A j \in 1 .. i - 1 : a[j] = b[j]
    /\ i = Len(a) + 1 \/ RunLess(a[i], b[i])

Compare(a, op, b) ==
  CASE op = "==" -> a = b
    [] op = ">=" -> ~KeyLess(a, b)
    [] op = "<=" -> ~KeyLess(b, a)
    [] op = ">"  -> KeyLess(b, a)
    [] op = "<"  -> KeyLess(a, b)

\* With "-." what stands before the first dash of v is compared, and the
\* strict operators are not.
satisfies(v, r) ==
  \/ r.op = ""
  \/ /\ r.op # "" /\ r.any /\ r.op # "=="
     /\ Compare(v.up, IF r.op \in {"<", "<="} THEN "<=" ELSE ">=",
                version_key(r.ver))
  \/ /\ r.op # "" /\ (~r.any \/ r.op = "==")
     /\ Compare(version_key(v), r.op, version_key(r.ver))

-----------------------------------------------------------------------------
(* For reference, versions in two halves: the upstream part decides, then  *)
(* the revision.  So does Debian, but its order of the parts is another:   *)
(* "~" is before the end of a version, letters before other signs, and the *)
(* epoch before them all.  A refusal that comes of that is not looked for. *)

SplitLess(v, w) ==
  KeyLess(v.up, w.up) \/ (v.up = w.up /\ KeyLess(v.rev, w.rev))

SplitSatisfies(v, r) ==
  LET less == IF r.any THEN ~KeyLess(r.ver.up, v.up) ELSE SplitLess(v, r.ver)
      same == ~r.any /\ v = r.ver
  IN CASE r.op = ""   -> TRUE
       [] r.op = "==" -> same
       [] r.op = "<"  -> less
       [] r.op = "<=" -> less \/ same
       [] r.op = ">"  -> ~less /\ ~same
       [] r.op = ">=" -> ~less
=============================================================================
