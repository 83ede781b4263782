---------------------------- MODULE NethosdFiles ----------------------------
(***************************************************************************)
(* The file operations of nethosd (nethosd.py /api/files/...).  A request  *)
(* resolves its path, chooses a name nobody has and acts on it, and another*)
(* request, in a thread of its own, may act in between.  A path is the     *)
(* sequence of its names below HOME; a name is a sequence too: what the    *)
(* file was called first, then the numbers unique_path put behind it.      *)
(***************************************************************************)
EXTENDS Naturals, Sequences, SequencesExt, FiniteSets

CONSTANTS FileRequests,  \* the request threads
          NewNames,      \* names a rename or a new folder is given
          TrashDir,      \* path of Trash/files
          Outside,       \* paths outside the allowed roots
          Letters,       \* what names are made of
          Trees,         \* what HOME may hold at the start
          MaxRequests    \* requests a behaviour makes

\* The folders that lead to a path.
Ancestors(p) == {SubSeq(p, 1, k) : k \in 1..(Len(p) - 1)}

\* A home is finite, and what a path goes through is a folder.
GivenPaths == Seq(Seq(Letters))
ASSUME HomesAssumption ==
  /\ NewNames \subseteq Seq(Letters) /\ TrashDir \in GivenPaths /\ MaxRequests \in Nat
  /\ \A t \in Trees :
       /\ IsFiniteSet(DOMAIN t) /\ <<>> \notin DOMAIN t
       /\ \A p \in DOMAIN t :
            /\ p \in GivenPaths /\ (t[p].kind = "link" => t[p].to \in GivenPaths)
            /\ \A a \in Ancestors(p) : a \in DOMAIN t /\ t[a].kind = "dir"

VARIABLES fs,            \* path to entry; a path outside its domain is free
          request,       \* per thread: phase, operation, paths
          asked          \* requests made so far

fileVars == <<fs, request, asked>>

Folder == [kind |-> "dir"]
Reachable(p) == p \notin Outside
IsFolder(p) == p = <<>> \/ (p \in DOMAIN fs /\ fs[p].kind = "dir")
FilesOf(t) == {p \in DOMAIN t : t[p].kind = "file"}
Contents(t) == {t[p].id : p \in FilesOf(t)}

Parent(p) == Front(p)
Under(p, q) == IsPrefix(p, q)
Onto(p, q, x) == q \o SubSeq(x, Len(p) + 1, Len(x))
IsLink(p) == p \in DOMAIN fs /\ fs[p].kind = "link"

\* Where a path leads: a link to where it points, and a path through a link to
\* a folder into that folder.  A link that leads to or through another link is
\* not followed further; listings name every entry by its real folder.
safe_path(p) == IF IsLink(p) THEN fs[p].to ELSE p
Turns(p) == {a \in Ancestors(p) : IsLink(a) /\ IsFolder(fs[a].to)}
Through(p) ==
  IF Turns(p) = {} THEN p ELSE LET a == CHOOSE x \in Turns(p) : TRUE IN Onto(a, fs[a].to, p)
Real(p) == Through(p) = p /\ safe_path(p) = p
Exists(p) == safe_path(p) \in DOMAIN fs \cup {<<>>}

\* Names a request may take: the first with its number that is free.
Numbered(p, n) == Append(Parent(p), Append(Last(p), n))
Mutunique_path(p) == p
unique_path(p) ==
  IF p \notin DOMAIN fs THEN p
  ELSE LET n == CHOOSE k \in 2..(Cardinality(DOMAIN fs) + 2) :
                  /\ Numbered(p, k) \notin DOMAIN fs
                  /\ \A j \in 2..(k - 1) : Numbered(p, j) \in DOMAIN fs
       IN Numbered(p, n)

-----------------------------------------------------------------------------
(* What the file system calls do to a tree.                                *)

Without(t, p) == [q \in {x \in DOMAIN t : ~Under(p, x)} |-> t[q]]
\* The tree with what is at p put at q as well.
Copied(t, p, q) ==
  LET new == {Onto(p, q, x) : x \in {y \in DOMAIN t : Under(p, y)}}
  IN [y \in DOMAIN t \cup new |-> IF y \in new THEN t[Onto(q, p, y)] ELSE t[y]]

\* The tree with the folders made that lead to p, if no file is in the way.
Leads(p) == \A a \in Ancestors(p) : a \in DOMAIN fs => IsFolder(a)
MutWithFolders(t, p) ==
  [y \in DOMAIN t \cup {Parent(p)} |-> IF y \in DOMAIN t THEN t[y] ELSE Folder]
WithFolders(t, p) ==
  [y \in DOMAIN t \cup Ancestors(p) |-> IF y \in DOMAIN t THEN t[y] ELSE Folder]

\* os.rename replaces a file or a link, never a folder by a file.
CanRename(p, q) ==
  /\ p \in DOMAIN fs /\ IsFolder(Parent(q)) /\ ~(Under(p, q) /\ p # q)
  /\ q \in DOMAIN fs => (IsFolder(p) <=> IsFolder(q))
  /\ IsFolder(q) => \A x \in DOMAIN fs : Under(q, x) => x = q
Renamed(p, q) == IF p = q THEN fs ELSE Without(Copied(Without(fs, q), p, q), p)

\* shutil.move and shutil.copy2 put a file into a folder that has the name, or
\* that a link there leads to; a folder that cannot be renamed is copied, which
\* makes the folders it needs.
Inside(p, q) == IF IsFolder(safe_path(q)) THEN Append(safe_path(q), Last(p)) ELSE q
CopiedFolder(p, q) ==
  IF q \in DOMAIN fs \/ ~Leads(q) \/ Under(p, q) THEN fs ELSE Copied(WithFolders(fs, q), p, q)
Moved(p, q) ==
  LET d == Inside(p, q)
  IN IF d # q /\ Exists(d) THEN fs
     ELSE IF CanRename(p, d) THEN Renamed(p, d)
     ELSE IF IsFolder(p) /\ CopiedFolder(p, d) # fs THEN Without(CopiedFolder(p, d), p) ELSE fs
\* shutil.copy2 writes through a link at the place it copies to.
CopiedFile(p, q) ==
  LET s == safe_path(p)
      d == safe_path(Inside(p, q))
  IN IF /\ s \in FilesOf(fs) /\ d # s /\ d # <<>>
        /\ IsFolder(Parent(d)) /\ (d \in DOMAIN fs => d \in FilesOf(fs))
     THEN Copied(fs, s, d) ELSE fs

-----------------------------------------------------------------------------
NoRequest == [phase |-> "idle", op |-> "none", path |-> <<>>, dest |-> <<>>, seen |-> {}]
FilesInitAt(t) == fs = t /\ request = [r \in FileRequests |-> NoRequest] /\ asked = 0
FilesInit == \E t \in Trees : FilesInitAt(t)

Take(r, op, p, d) ==
  request' = [request EXCEPT ![r] = [phase |-> "taken", op |-> op, path |-> p, dest |-> d,
                                     seen |-> {<<x, fs[x].id>> : x \in FilesOf(fs)}]]
Entry(p) == p \in DOMAIN fs
Begin(r) ==
  request[r].phase = "idle" /\ asked < MaxRequests /\ asked' = asked + 1

\* Each checks what it can, and chooses the name it will use.
AskMkdir(r) ==
  /\ Begin(r)
  /\ \E p \in DOMAIN fs \cup {<<>>}, n \in NewNames :
       IsFolder(p) /\ Take(r, "mkdir", p, Append(p, n))
  /\ UNCHANGED fs

\* Refused when the name leads to something: a link to nothing is not.
AskRename(r) ==
  /\ Begin(r)
  /\ \E e \in DOMAIN fs, n \in NewNames :
       LET p == safe_path(e)
           target == Append(Parent(p), n)
       IN /\ Real(p) /\ Reachable(p) /\ ~Exists(target)
          /\ Take(r, "rename", p, target)
  /\ UNCHANGED fs

AskTrash(r) ==
  /\ Begin(r) /\ Leads(Append(TrashDir, <<>>))
  /\ fs' = WithFolders(fs, Append(TrashDir, <<>>))
  /\ \E e \in DOMAIN fs :
       LET p == safe_path(e)
       IN Real(p) /\ Reachable(p)
          /\ Take(r, "trash", p, unique_path(Append(TrashDir, Last(p))))

AskPut(r) ==
  /\ Begin(r)
  /\ \E op \in {"copy", "move"}, e \in DOMAIN fs, f \in DOMAIN fs \cup {<<>>} :
       LET p == safe_path(e)
           dir == safe_path(f)
       IN /\ Real(p) /\ Reachable(p) /\ Reachable(dir) /\ IsFolder(dir)
          /\ ~(IsFolder(p) /\ Under(p, dir))
          /\ Take(r, op, p, unique_path(Append(dir, Last(p))))
  /\ UNCHANGED fs

AskDelete(r) ==
  /\ Begin(r)
  /\ \E e \in DOMAIN fs :
       LET p == safe_path(e)
       IN Real(p) /\ Reachable(p) /\ Take(r, "delete", p, <<>>)
  /\ UNCHANGED fs

\* What the request then does, by paths that may meanwhile go through a link; an
\* error changes nothing.
Outcome(q) ==
  LET p == Through(q.path)
      d == Through(q.dest)
  IN CASE q.op = "mkdir" ->
            IF Entry(d) \/ ~Leads(d) THEN fs ELSE WithFolders(fs, Append(d, <<>>))
       [] q.op = "rename" -> IF CanRename(p, d) THEN Renamed(p, d) ELSE fs
       [] q.op \in {"trash", "move"} -> IF Entry(p) THEN Moved(p, d) ELSE fs
       [] q.op = "copy" -> IF ~Entry(p) THEN fs
                           ELSE IF IsFolder(safe_path(p)) THEN CopiedFolder(safe_path(p), d)
                           ELSE CopiedFile(p, d)
       [] q.op = "delete" -> Without(fs, p)

Act(r) ==
  /\ request[r].phase = "taken"
  /\ fs' = Outcome(request[r]) /\ request' = [request EXCEPT ![r] = NoRequest]
  /\ UNCHANGED asked

FilesNext ==
  \E r \in FileRequests :
     AskMkdir(r) \/ AskRename(r) \/ AskTrash(r) \/ AskPut(r) \/ AskDelete(r) \/ Act(r)
FilesSpec == FilesInit /\ [][FilesNext]_fileVars

-----------------------------------------------------------------------------
FilesTypeOK ==
  /\ <<>> \notin DOMAIN fs /\ \A p \in DOMAIN fs : IsFolder(Parent(p))
  /\ \A r \in FileRequests : request[r].phase \in {"idle", "taken"}
  /\ asked \in 0..MaxRequests

\* No file is lost but by a delete of it or of a folder around it, by a request
\* that found its place free before the file came there, or by one a link came in
\* the way of since its paths were resolved (nethosd.py:640): copy2 then writes
\* into the file the link leads to (3323).  Whatever else is copied, moved,
\* renamed or trashed, what a request could see in its way stays (unique_path and
\* the handlers of /api/files).
PlacesOf(c) == {p \in FilesOf(fs) : fs[p].id = c}
Deletes(q, c) == q.op = "delete" /\ \A p \in PlacesOf(c) : Under(q.path, p)
CameLate(q, c) == \A p \in PlacesOf(c) : <<p, c>> \notin q.seen
Strayed(q) ==
  \/ \E x \in {q.path, q.dest} : Through(x) # x
  \/ /\ q.op \in {"copy", "move", "trash"}
     /\ \E x \in {q.path, q.dest, Inside(q.path, q.dest)} : safe_path(x) # x
KeepsContents ==
  [][\A c \in Contents(fs) \ Contents(fs') :
       \E r \in FileRequests :
          /\ request[r].phase = "taken" /\ request'[r] = NoRequest
          /\ \/ Deletes(request[r], c) \/ CameLate(request[r], c)
             \/ Strayed(request[r])]_fileVars
=============================================================================
