-------------------------- MODULE FileProfileStore --------------------------
(***************************************************************************)
(* The file profile store (connection/store.rs): one TOML file per         *)
(* profile in a directory. Every nmd invocation opens the directory        *)
(* anew and nothing locks it, so the calls of several processes            *)
(* interleave at each system call; a process may be killed between two of  *)
(* them, the disk may fill up, and the user may edit the files.            *)
(*                                                                         *)
(* A file's content is NoFile, the Empty file that fs::write leaves        *)
(* between truncating and writing, a profile, or Mixed: the end of a long  *)
(* profile behind a short one that another process wrote over it. A        *)
(* profile is an id and a body; a body in Bad fails validate().            *)
(***************************************************************************)
EXTENDS Naturals

CONSTANTS
    Ids,          \* profile ids, in their string order
    Bodies,       \* the rest of a profile
    Bad,          \* bodies that do not validate
    NoFile, Empty, Mixed,
    Procs,        \* processes with a store open
    MaxCalls,     \* bound: calls of the store
    MaxFaults,    \* bound: kills and failed writes
    MaxEdits      \* bound: files the user edits by hand

Profile   == [id : Ids, body : Bodies]
NoProfile == {NoFile, Empty, Mixed}
Directory == [Ids -> Profile \cup NoProfile]

ASSUME StoreAssumption ==
    /\ Ids \subseteq Nat /\ Bad \subseteq Bodies
    /\ MaxCalls \in Nat /\ MaxFaults \in Nat /\ MaxEdits \in Nat
    /\ NoFile # Empty /\ NoFile # Mixed /\ Empty # Mixed
    /\ NoProfile \cap Profile = {}

VARIABLES
    files,    \* the directory
    procs,    \* what each process is doing
    torn,     \* ids whose last write was interrupted or mixed with another
    edited,   \* ids whose file the user has edited since it was written
    calls, faults, edits

vars == <<files, procs, torn, edited, calls, faults, edits>>

-----------------------------------------------------------------------------
(* A process. pc is the next system call; arg the profile (its id alone,   *)
(* for get and delete); todo the files list has still to read; seen every  *)
(* directory there has been since the call began, alone whether no other   *)
(* process has been in a call meanwhile.                                   *)

Idle(result, found) ==
    [pc |-> "idle", op |-> "none", arg |-> [id |-> 0, body |-> "none"],
     todo |-> {}, found |-> found, result |-> result, before |-> NoFile,
     seen |-> {}, alone |-> TRUE]

Busy(p) == procs[p].pc # "idle"

(* Unlinking or replacing a file orphans the one a process has open.       *)
Witness(s, dir, unlinked) ==
    IF s.pc = "idle" THEN s
    ELSE [s EXCEPT !.seen = @ \cup {dir},
                   !.pc = IF @ = "write" /\ s.arg.id \in unlinked
                          THEN "orphan" ELSE @]

(* A step of p that leaves the directory as dir and moves p to r.          *)
Step(p, dir, unlinked, r) ==
    /\ files' = dir
    /\ procs' = [q \in Procs |->
                    Witness(IF q = p THEN r ELSE procs[q], dir, unlinked)]

Return(p, result) == Step(p, files, {}, Idle(result, {}))

-----------------------------------------------------------------------------
(* parse_profile: TOML, then the id against the file name, then validate.  *)

Valid(profile) == profile.body \notin Bad

(* Bug: an empty file passes for a profile with every field defaulted.     *)
MutSound(id, content) ==
    \/ content = Empty
    \/ content \notin NoProfile /\ content.id = id /\ Valid(content)

Sound(id, content) ==
    content \notin NoProfile /\ content.id = id /\ Valid(content)

(* The in-memory store over a map from ids to profiles.                    *)
MemList(map)   == { map[i] : i \in { j \in Ids : map[j] # NoFile } }
MemGet(map, i) == IF map[i] = NoFile THEN {} ELSE {map[i]}
MemCreate(map, profile) ==
    IF Valid(profile) /\ map[profile.id] = NoFile
    THEN [map EXCEPT ![profile.id] = profile] ELSE map
MemUpdate(map, profile) ==
    IF Valid(profile) /\ map[profile.id] # NoFile
    THEN [map EXCEPT ![profile.id] = profile] ELSE map
MemDelete(map, i) == [map EXCEPT ![i] = NoFile]

-----------------------------------------------------------------------------

Init ==
    /\ files  = [i \in Ids |-> NoFile]
    /\ procs  = [p \in Procs |-> Idle("none", {})]
    /\ torn   = {} /\ edited = {}
    /\ calls  = 0 /\ faults = 0 /\ edits = 0

(* A call begins. is_file (for list, read_dir) is its first system call.   *)
Call(p, op, profile) ==
    /\ ~Busy(p) /\ calls < MaxCalls
    /\ calls' = calls + 1
    /\ procs' = [q \in Procs |->
          IF q = p
          THEN [Idle("none", {}) EXCEPT !.pc = "enter", !.op = op,
                                        !.arg = profile, !.before = files,
                                        !.seen = {files},
                                        !.alone = \A r \in Procs : ~Busy(r)]
          ELSE [procs[q] EXCEPT !.alone = @ /\ ~Busy(q)]]
    /\ UNCHANGED <<files, torn, edited, faults, edits>>

At(p, pc, ops) == procs[p].pc = pc /\ procs[p].op \in ops

Goto(p, pc) == Step(p, files, {}, [procs[p] EXCEPT !.pc = pc])

IsFile(p) == files[procs[p].arg.id] # NoFile

(* Bug: create does not look for the file it is about to replace.          *)
MutWriteAllowed(p) == procs[p].op = "create" \/ IsFile(p)

(* create, update: is_file, then validate, then fs::write.                 *)
WriteAllowed(p) == IF procs[p].op = "create" THEN ~IsFile(p) ELSE IsFile(p)

(* Bug: the file is opened for writing before the profile is validated.    *)
MutEnterWrite(p) ==
    /\ At(p, "enter", {"create", "update"})
    /\ IF ~WriteAllowed(p)
       THEN Return(p, IF procs[p].op = "create" THEN "AlreadyExists"
                             ELSE "NotFound")
       ELSE IF ~Valid(procs[p].arg)
       THEN Step(p, [files EXCEPT ![procs[p].arg.id] = Empty], {},
                 Idle("Invalid", {}))
       ELSE Goto(p, "truncate")
    /\ UNCHANGED <<torn, edited, calls, faults, edits>>

EnterWrite(p) ==
    /\ At(p, "enter", {"create", "update"})
    /\ IF ~WriteAllowed(p)
       THEN Return(p, IF procs[p].op = "create" THEN "AlreadyExists"
                             ELSE "NotFound")
       ELSE IF ~Valid(procs[p].arg) THEN Return(p, "Invalid")
       ELSE Goto(p, "truncate")
    /\ UNCHANGED <<torn, edited, calls, faults, edits>>

(* fs::write: open with O_CREAT and O_TRUNC, then write.                   *)
Truncate(p) ==
    /\ procs[p].pc = "truncate"
    /\ Step(p, [files EXCEPT ![procs[p].arg.id] = Empty], {},
            [procs[p] EXCEPT !.pc = "write"])
    /\ UNCHANGED <<torn, edited, calls, faults, edits>>

(* Each writer writes at the start of the file: over what another has      *)
(* written since, whose end remains if it was longer.                      *)
Write(p) ==
    LET profile == procs[p].arg  id == profile.id IN
    /\ procs[p].pc = "write"
    /\ \E content \in {profile, Mixed} :
          /\ content = Mixed => files[id] \notin {Empty, profile}
          /\ Step(p, [files EXCEPT ![id] = content], {}, Idle("Ok", {}))
          /\ torn' = IF content = Mixed THEN torn \cup {id} ELSE torn \ {id}
    /\ edited' = edited \ {id}
    /\ UNCHANGED <<calls, faults, edits>>

(* What goes to a file that has been removed or replaced is lost.          *)
WriteOrphan(p) ==
    /\ procs[p].pc = "orphan"
    /\ Return(p, "Ok")
    /\ UNCHANGED <<torn, edited, calls, faults, edits>>

(* The disk is full: an I/O error, and the file stays truncated. Part of   *)
(* the text may be there instead; it is as unreadable as none.             *)
WriteFails(p) ==
    LET id == procs[p].arg.id IN
    /\ procs[p].pc = "write" /\ faults < MaxFaults
    /\ Return(p, "Io")
    /\ torn' = IF files[id] = Empty THEN torn \cup {id} ELSE torn
    /\ faults' = faults + 1
    /\ UNCHANGED <<edited, calls, edits>>

(* delete and get.                                                         *)
EnterRead(p) ==
    /\ At(p, "enter", {"get", "delete"})
    /\ IF IsFile(p) THEN Goto(p, procs[p].op) ELSE Return(p, "NotFound")
    /\ UNCHANGED <<torn, edited, calls, faults, edits>>

(* remove_file reports a file that another process removed first.          *)
Remove(p) ==
    LET id == procs[p].arg.id IN
    /\ procs[p].pc = "delete"
    /\ Step(p, [files EXCEPT ![id] = NoFile], {id},
            Idle(IF IsFile(p) THEN "Ok" ELSE "Io", {}))
    /\ torn' = torn \ {id} /\ edited' = edited \ {id}
    /\ UNCHANGED <<calls, faults, edits>>

ReadOne(p) ==
    LET id == procs[p].arg.id IN
    /\ procs[p].pc = "get"
    /\ IF ~IsFile(p) THEN Return(p, "Io")
       ELSE IF Sound(id, files[id])
       THEN Step(p, files, {}, Idle("Ok", {files[id]}))
       ELSE Return(p, "Malformed")
    /\ UNCHANGED <<torn, edited, calls, faults, edits>>

(* list: the directory is read once, then each file in turn; the first     *)
(* one that cannot be read or parsed ends the call.                        *)
ReadDir(p) ==
    /\ At(p, "enter", {"list"})
    /\ Step(p, files, {}, [procs[p] EXCEPT !.pc = "list",
                          !.todo = { i \in Ids : files[i] # NoFile }])
    /\ UNCHANGED <<torn, edited, calls, faults, edits>>

(* Bug: a file that cannot be read or parsed is skipped.                   *)
MutReadNext(p) ==
    LET todo == procs[p].todo
        id   == CHOOSE i \in todo : \A j \in todo : i <= j IN
    /\ procs[p].pc = "list"
    /\ IF todo = {} THEN Step(p, files, {}, Idle("Ok", procs[p].found))
       ELSE Step(p, files, {}, [procs[p] EXCEPT !.todo = @ \ {id},
                              !.found = @ \cup (IF Sound(id, files[id])
                                                THEN {files[id]} ELSE {})])
    /\ UNCHANGED <<torn, edited, calls, faults, edits>>

ReadNext(p) ==
    LET todo == procs[p].todo
        id   == CHOOSE i \in todo : \A j \in todo : i <= j IN
    /\ procs[p].pc = "list"
    /\ IF todo = {} THEN Step(p, files, {}, Idle("Ok", procs[p].found))
       ELSE IF files[id] = NoFile THEN Return(p, "Io")
       ELSE IF ~Sound(id, files[id]) THEN Return(p, "Malformed")
       ELSE Step(p, files, {}, [procs[p] EXCEPT !.todo = @ \ {id},
                                            !.found = @ \cup {files[id]}])
    /\ UNCHANGED <<torn, edited, calls, faults, edits>>

(* The process is killed. A file it has truncated stays so.                *)
Kill(p) ==
    LET id == procs[p].arg.id IN
    /\ Busy(p) /\ faults < MaxFaults
    /\ procs' = [procs EXCEPT ![p] = Idle("killed", {})]
    /\ torn' = IF procs[p].pc = "write" /\ files[id] = Empty
               THEN torn \cup {id} ELSE torn
    /\ faults' = faults + 1
    /\ UNCHANGED <<files, edited, calls, edits>>

(* The user writes, or copies, a file with an editor that replaces it.     *)
Edit(id, profile) ==
    /\ edits < MaxEdits
    /\ edits' = edits + 1
    /\ files' = [files EXCEPT ![id] = profile]
    /\ procs' = [q \in Procs |->
          Witness([procs[q] EXCEPT !.alone = @ /\ ~Busy(q)], files', {id})]
    /\ edited' = edited \cup {id} /\ torn' = torn \ {id}
    /\ UNCHANGED <<calls, faults>>

Next ==
    \/ \E p \in Procs :
          \/ \E op \in {"create", "update"}, profile \in Profile :
                Call(p, op, profile)
          \/ \E op \in {"get", "delete"}, i \in Ids :
                Call(p, op, [id |-> i, body |-> "none"])
          \/ Call(p, "list", [id |-> 0, body |-> "none"])
          \/ EnterWrite(p) \/ Truncate(p)
          \/ Write(p) \/ WriteOrphan(p) \/ WriteFails(p)
          \/ EnterRead(p) \/ Remove(p) \/ ReadOne(p)
          \/ ReadDir(p) \/ ReadNext(p) \/ Kill(p)
    \/ \E i \in Ids, profile \in Profile : Edit(i, profile)

Spec == Init /\ [][Next]_vars

-----------------------------------------------------------------------------

Results == {"none", "Ok", "AlreadyExists", "NotFound", "Invalid", "Malformed",
            "Io", "killed"}

(* Types: the directory, and what each process holds of the call it is in. *)
TypeOK ==
    /\ files \in Directory
    /\ \A p \in Procs :
          /\ procs[p].pc \in {"idle", "enter", "truncate", "write", "orphan",
                              "delete", "get", "list"}
          /\ procs[p].todo \subseteq Ids
          /\ procs[p].found \subseteq Profile
          /\ procs[p].result \in Results
          /\ procs[p].seen \subseteq Directory
          /\ procs[p].alone \in BOOLEAN
    /\ torn \subseteq Ids /\ edited \subseteq Ids
    /\ calls \in 0 .. MaxCalls
    /\ faults \in 0 .. MaxFaults
    /\ edits \in 0 .. MaxEdits

Writing(i) == \E p \in Procs : procs[p].pc = "write" /\ procs[p].arg.id = i

(* "Safe persistence" (store.rs:5) as far as it goes: whatever processes   *)
(* overlap, are killed, run out of space or are refused, a file that the   *)
(* user has not edited holds a valid profile under its own id, unless it   *)
(* is being written, or its last write was interrupted or ran into that    *)
(* of another process: only the profile being written can be damaged, and  *)
(* a refused call damages nothing.                                         *)
SoundUnlessTorn ==
    \A i \in Ids : \/ files[i] = NoFile
                   \/ Sound(i, files[i])
                   \/ i \in torn \cup edited
                   \/ files[i] = Empty /\ Writing(i)

Ends(p) == Busy(p) /\ procs'[p].pc = "idle" /\ procs'[p].result # "killed"

(* The end of a call of list, given every directory there was during it.   *)
FairList(p) ==
    LET seen == procs[p].seen  found == procs'[p].found IN
    CASE procs'[p].result = "Ok" ->
           /\ \A x \in found : /\ Valid(x)
                               /\ \E dir \in seen : dir[x.id] = x
           /\ \A i \in Ids :
                (\A dir \in seen : dir[i] = files[i] /\ files[i] # NoFile)
                   => files[i] \in found
      [] procs'[p].result = "Malformed" ->
           \E dir \in seen, i \in Ids : dir[i] # NoFile /\ ~Sound(i, dir[i])
      [] procs'[p].result = "Io" ->
           \E i \in Ids, dir, later \in seen :
              dir[i] # NoFile /\ later[i] = NoFile

(* A list that succeeds is a fair reading of a directory that changed      *)
(* under it: every profile in it was in the directory, under its own id    *)
(* and valid, at some moment of the call, and every file that stayed as    *)
(* it was throughout is in it. One that fails met a file that was not      *)
(* sound (Malformed) or that disappeared during the call (Io): a damaged   *)
(* file is reported, never skipped (store.rs:124).                         *)
ListIsFair ==
    [][\A p \in Procs : Ends(p) /\ procs[p].op = "list" => FairList(p)]_vars

(* The end of a call, given the directory it found.                        *)
LikeMemory(p) ==
    LET c   == procs[p]
        map == c.before
        ok  == procs'[p].result = "Ok"
    IN  CASE c.op = "list"   -> ok /\ procs'[p].found = MemList(map)
          [] c.op = "get"    -> procs'[p].found = MemGet(map, c.arg.id)
          [] c.op = "create" -> /\ files' = MemCreate(map, c.arg)
                                /\ ok <=> files' # map
          [] c.op = "update" ->
               /\ files' = MemUpdate(map, c.arg)
               /\ ok <=> Valid(c.arg) /\ map[c.arg.id] # NoFile
          [] c.op = "delete" -> /\ files' = MemDelete(map, c.arg.id)
                                /\ ok <=> files' # map

(* Undisturbed, the file store is the in-memory store: a call that no      *)
(* other process, fault or edit overlapped, over files that are sound,     *)
(* returns and leaves what InMemoryProfileStore would. (The two disagree   *)
(* on which error an invalid profile gets when its id is also taken.)      *)
QuietMatchesMemory ==
    [][ \A p \in Procs :
          /\ Ends(p) /\ procs[p].alone /\ faults' = faults
          /\ \A i \in Ids : procs[p].before[i] # NoFile
                               => Sound(i, procs[p].before[i])
          => LikeMemory(p) ]_vars

=============================================================================
