-------------------------- MODULE NethosdSettings --------------------------
(***************************************************************************)
(* How nethosd keeps the settings and the data of each application         *)
(* (nethosd.py write_settings, storage_write): read, merge, write a        *)
(* temporary file, rename it.  Request threads take no lock and share the  *)
(* one temporary name, and nethosd may end between any two calls.          *)
(***************************************************************************)
EXTENDS Integers, FiniteSets

CONSTANTS Writers,       \* request threads
          StoredFiles,   \* "settings" and the storage of an application
          Schema,        \* per setting: its type, bounds or options, default
          Values,        \* values a request may carry; ranges count in half units
          Inodes,        \* files that may exist at once, under a name or open
          MaxWrites,     \* writes a behaviour asks for
          NoInode, Torn, Empty

\* A default is one of the values its setting may have; what is whole is
\* neither empty nor torn; and the disk has room for the files in use.
ASSUME SchemaAssumption ==
  /\ Values \subseteq Int
  /\ \A k \in DOMAIN Schema :
       /\ Schema[k].default \in Int /\ Schema[k].type \in {"bool", "choice", "range"}
       /\ Schema[k].type = "range" =>
            /\ Schema[k].min \in Int /\ Schema[k].max \in Int
            /\ Schema[k].default \in Schema[k].min .. Schema[k].max
  /\ {Empty, Torn} \cap [DOMAIN Schema -> Int] = {}
ASSUME InodesAssumption ==
  /\ "settings" \in StoredFiles /\ NoInode \notin Inodes
  /\ IsFiniteSet(StoredFiles) /\ IsFiniteSet(Writers) /\ IsFiniteSet(Inodes)
  /\ Cardinality(Inodes) >= 2 * Cardinality(StoredFiles) + Cardinality(Writers)
ASSUME WritesAssumption == MaxWrites \in Nat

VARIABLES content,       \* per inode: Empty, Torn or what was written
          path, tmp,     \* per file: the inode of the name, of its ".tmp"
          writer,        \* per thread: phase, file, changes, merged value, open inode
          kept, mixed,   \* history: what the writes amount to; files that had two writers
          writes

settingsVars == <<content, path, tmp, writer, kept, mixed, writes>>

Keys == DOMAIN Schema
DEFAULTS == [k \in Keys |-> Schema[k].default]
NoWriter == [phase |-> "idle", file |-> "settings", changes |-> DEFAULTS, keys |-> {},
             value |-> DEFAULTS, fd |-> NoInode]

SettingsInit ==
  /\ content = [i \in Inodes |-> Empty]
  /\ path = [f \in StoredFiles |-> NoInode] /\ tmp = [f \in StoredFiles |-> NoInode]
  /\ writer = [w \in Writers |-> NoWriter]
  /\ kept = [f \in StoredFiles |-> DEFAULTS] /\ mixed = {} /\ writes = 0

-----------------------------------------------------------------------------
Whole(c) == c \notin {Empty, Torn}
\* What a reader of the file gets: the defaults when it is not there or does
\* not parse.
Stored(f) == IF path[f] # NoInode /\ Whole(content[path[f]]) THEN content[path[f]] ELSE DEFAULTS
read_settings == Stored("settings")

\* int() drops the half, and the bounds hold.
Trunc(v) == 2 * (v \div 2)
Clamp(s, v) == IF v < s.min THEN s.min ELSE IF v > s.max THEN s.max ELSE v
Accepted(k, v, old) ==
  LET s == Schema[k]
  IN CASE s.type = "bool"   -> IF v = 0 THEN 0 ELSE 1
       [] s.type = "choice" -> IF v \in s.options THEN v ELSE old
       [] s.type = "range"  -> Clamp(s, Trunc(v))
Merged(changes, ks) ==
  [k \in Keys |-> IF k \in ks THEN Accepted(k, changes[k], read_settings[k]) ELSE read_settings[k]]

Set(w, r) == writer' = [writer EXCEPT ![w] = r]
Writing(f) == {w \in Writers : writer[w].phase # "idle" /\ writer[w].file = f}

-----------------------------------------------------------------------------
Request(w, f, changes, ks) ==
  /\ writer[w].phase = "idle" /\ writes < MaxWrites /\ writes' = writes + 1
  /\ Set(w, [phase |-> "read", file |-> f, changes |-> changes, keys |-> ks,
             value |-> DEFAULTS, fd |-> NoInode])
  /\ mixed' = mixed \cup (IF Writing(f) = {} THEN {} ELSE {f})
  /\ UNCHANGED <<content, path, tmp, kept>>

\* POST /api/settings: some changes, or all the defaults.
AskSettings(w) ==
  \/ \E k \in Keys, v \in Values : Request(w, "settings", [DEFAULTS EXCEPT ![k] = v], {k})
  \/ Request(w, "settings", DEFAULTS, Keys)
\* PUT /api/storage/<app>: the page's data, whatever it is.
AskStorage(w) ==
  \E f \in StoredFiles \ {"settings"}, k \in Keys, v \in Values :
     Request(w, f, [DEFAULTS EXCEPT ![k] = v], {})

Merge(w) ==
  LET q == writer[w]
  IN /\ q.phase = "read"
     /\ Set(w, [q EXCEPT !.phase = "merged",
                         !.value = IF q.file = "settings" THEN Merged(q.changes, q.keys)
                                   ELSE q.changes])
     /\ UNCHANGED <<content, path, tmp, kept, mixed, writes>>

InUse == {path[f] : f \in StoredFiles} \cup {tmp[f] : f \in StoredFiles}
         \cup {writer[w].fd : w \in Writers}
FreshInode == CHOOSE i \in Inodes : i \notin InUse

\* open(tmp, "w") makes the file or empties the one that has the name.
MutTemporary(f) == path[f]
Temporary(f) == tmp[f]
Open(w) ==
  LET q == writer[w]
  IN /\ q.phase = "merged"
     /\ \E i \in {IF Temporary(q.file) # NoInode THEN Temporary(q.file) ELSE FreshInode} :
          /\ content' = [content EXCEPT ![i] = Empty]
          /\ tmp' = [tmp EXCEPT ![q.file] = i]
          /\ Set(w, [q EXCEPT !.phase = "open", !.fd = i])
     /\ UNCHANGED <<path, kept, mixed, writes>>

\* Over what another thread wrote through the same file, a shorter text leaves
\* the tail of the longer one.
Write(w) ==
  LET q == writer[w]
  IN /\ q.phase = "open"
     /\ \E c \in {q.value} \cup (IF content[q.fd] \in {Empty, q.value} THEN {} ELSE {Torn}) :
          content' = [content EXCEPT ![q.fd] = c]
     /\ Set(w, [q EXCEPT !.phase = "written", !.fd = NoInode])
     /\ UNCHANGED <<path, tmp, kept, mixed, writes>>

\* os.replace; when another thread has renamed the temporary file already, the
\* request fails.
Replace(w) ==
  LET q == writer[w]
  IN /\ q.phase = "written"
     /\ IF tmp[q.file] = NoInode
        THEN UNCHANGED <<path, tmp, kept>>
        ELSE /\ path' = [path EXCEPT ![q.file] = tmp[q.file]]
             /\ tmp' = [tmp EXCEPT ![q.file] = NoInode]
             /\ kept' = [kept EXCEPT ![q.file] =
                  IF q.file = "settings"
                  THEN [k \in Keys |-> IF k \in q.keys THEN q.value[k] ELSE kept[q.file][k]]
                  ELSE q.value]
     /\ Set(w, NoWriter) /\ UNCHANGED <<content, mixed, writes>>

\* nethosd ends, in the middle of a text or not.
Crash ==
  /\ \E w \in Writers : writer[w].phase # "idle"
  /\ writer' = [w \in Writers |-> NoWriter]
  /\ \E cut \in SUBSET ({writer[w].fd : w \in Writers} \ {NoInode}) :
       content' = [i \in Inodes |-> IF i \in cut THEN Torn ELSE content[i]]
  /\ UNCHANGED <<path, tmp, kept, mixed, writes>>

WriterSteps(w) == Merge(w) \/ Open(w) \/ Write(w) \/ Replace(w)
SettingsNext ==
  \/ \E w \in Writers : AskSettings(w) \/ AskStorage(w) \/ WriterSteps(w)
  \/ Crash
SettingsSpec == SettingsInit /\ [][SettingsNext]_settingsVars

-----------------------------------------------------------------------------
SettingsTypeOK ==
  /\ \A f \in StoredFiles : {path[f], tmp[f]} \subseteq Inodes \cup {NoInode}
  /\ \A w \in Writers : writer[w].phase \in {"idle", "read", "merged", "open", "written"}
  /\ writes \in 0..MaxWrites

\* Wherever nethosd ends, and whatever writes of the other file go on, a file
\* that never had two writers at once reads as what its writes left: every
\* change renamed into place stays until the same setting is changed again,
\* within the ranges of the schema (write_settings, storage_write).
SettingsKept ==
  /\ \A f \in StoredFiles \ mixed : Stored(f) = kept[f]
  /\ "settings" \notin mixed =>
       \A k \in Keys : Schema[k].type = "range" =>
          read_settings[k] \in Schema[k].min..Schema[k].max
=============================================================================
