---------------------- MODULE FileProfileStore_proofs ----------------------
(***************************************************************************)
(* Proofs about FileProfileStore, for any ids, bodies and processes and    *)
(* any number of calls, faults and edits.                                  *)
(***************************************************************************)
EXTENDS FileProfileStore, WellFoundedInduction, TLAPS

-----------------------------------------------------------------------------
(* The state of a process, and what a step does to it.                     *)

Pcs == {"idle", "enter", "truncate", "write", "orphan", "delete", "get", "list"}
Ops == {"none", "create", "update", "get", "delete", "list"}

Process ==
    [pc : Pcs, op : Ops, arg : [id : Ids \cup {0}, body : Bodies \cup {"none"}],
     todo : SUBSET Ids, found : SUBSET Profile, result : Results,
     before : Directory \cup {NoFile}, seen : SUBSET Directory, alone : BOOLEAN]

(* A process without a call.                                               *)
LEMMA IdleType ==
    ASSUME NEW r \in Results, NEW f \in SUBSET Profile
    PROVE  /\ Idle(r, f) \in Process
           /\ Idle(r, f).pc = "idle" /\ Idle(r, f).op = "none"
           /\ Idle(r, f).result = r /\ Idle(r, f).found = f
BY DEF Idle, Process, Pcs, Ops

(* A process that is in a call takes note of the directory.                *)
LEMMA WitnessFields ==
    ASSUME NEW s \in Process, NEW dir \in Directory, NEW u
    PROVE  LET w == Witness(s, dir, u) IN
           /\ w \in Process
           /\ w.op = s.op /\ w.arg = s.arg /\ w.todo = s.todo
           /\ w.found = s.found /\ w.result = s.result
           /\ w.before = s.before /\ w.alone = s.alone
           /\ s.pc = "idle" => w = s
           /\ s.pc # "idle" => w.seen = s.seen \cup {dir}
           /\ w.pc = IF s.pc = "write" /\ s.arg.id \in u THEN "orphan" ELSE s.pc
BY DEF Witness, Process, Pcs

(* A step of one process: what becomes of it, and of the others.           *)
LEMMA StepEffect ==
    ASSUME procs \in [Procs -> Process], NEW p \in Procs, NEW dir \in Directory,
           NEW u, NEW r \in Process, Step(p, dir, u, r)
    PROVE  /\ files' = dir /\ procs' \in [Procs -> Process]
           /\ procs'[p] = Witness(r, dir, u)
           /\ \A q \in Procs \ {p} : procs'[q] = Witness(procs[q], dir, u)
BY WitnessFields DEF Step

-----------------------------------------------------------------------------
(* The inductive invariant. TypeOK says nothing of the profile a process   *)
(* is about to write, nor of what a listing has collected: the first is    *)
(* what keeps the files sound, the second what a listing may claim.        *)

(* The arguments of a call fit its next system call. Whatever reaches a    *)
(* file has been validated.                                                *)
ArgsFit(c) ==
    /\ c.op # "none" /\ (c.pc = "enter" => c.found = {})
    /\ c.op \in {"create", "update"} => c.arg \in Profile
    /\ c.op \in {"get", "delete"} => c.arg.id \in Ids
    /\ c.pc \in {"truncate", "write", "orphan"} =>
          c.op \in {"create", "update"} /\ Valid(c.arg)
    /\ c.pc \in {"get", "delete", "list"} => c.op = c.pc

(* What is still to be read existed, what was read was there and valid,    *)
(* and nothing was passed over that had not been absent.                   *)
Reading(c) ==
    /\ \A i \in c.todo : \E dir \in c.seen : dir[i] # NoFile
    /\ \A x \in c.found : Valid(x) /\ \E dir \in c.seen : dir[x.id] = x
    /\ \A i \in Ids \ c.todo :
          \E dir \in c.seen : dir[i] = NoFile \/ dir[i] \in c.found

Held(c) == c.pc # "idle" => ArgsFit(c) /\ (c.pc = "list" => Reading(c))

Local(c, dir) == Held(c) /\ (c.pc # "idle" => dir \in c.seen)

IInv ==
    /\ TypeOK /\ procs \in [Procs -> Process]
    /\ \A p \in Procs : Local(procs[p], files)

(* A process in a call keeps its part of the invariant whatever another    *)
(* process does to the directory.                                          *)
LEMMA WitnessLocal ==
    ASSUME NEW s \in Process, NEW dir \in Directory, NEW u, Held(s)
    PROVE  Local(Witness(s, dir, u), dir)
<1> DEFINE w == Witness(s, dir, u)
<1>1. CASE s.pc = "idle"
  BY <1>1, WitnessFields DEF Local, Held
<1>2. CASE s.pc # "idle"
  <2>1. /\ w.op = s.op /\ w.arg = s.arg /\ w.todo = s.todo /\ w.found = s.found
        /\ w.seen = s.seen \cup {dir}
        /\ w.pc = s.pc \/ (s.pc = "write" /\ w.pc = "orphan")
    BY <1>2, WitnessFields
  <2> HIDE DEF w
  <2>2. ArgsFit(s) /\ (s.pc = "list" => Reading(s))
    BY <1>2 DEF Held
  <2>3. ArgsFit(w)
    BY <2>1, <2>2 DEF ArgsFit
  <2>4. w.pc = "list" => Reading(w)
    BY <2>1, <2>2 DEF Reading
  <2> QED BY <2>1, <2>3, <2>4 DEF Local, Held, w
<1> QED BY <1>1, <1>2

(* A step of a process that ends in a call of good form leaves every       *)
(* process with one.                                                       *)
LEMMA StepLocal ==
    ASSUME IInv, NEW p \in Procs, NEW dir \in Directory,
           NEW u, NEW r \in Process, Held(r), Step(p, dir, u, r)
    PROVE  /\ files' \in Directory /\ procs' \in [Procs -> Process]
           /\ \A q \in Procs : Local(procs'[q], files')
<1>1. /\ files' = dir /\ procs' \in [Procs -> Process]
      /\ procs'[p] = Witness(r, dir, u)
      /\ \A q \in Procs \ {p} : procs'[q] = Witness(procs[q], dir, u)
  BY StepEffect DEF IInv
<1>2. \A q \in Procs : procs[q] \in Process /\ Held(procs[q])
  BY DEF IInv, Local
<1>3. \A q \in Procs : Local(procs'[q], dir)
  BY <1>1, <1>2, WitnessLocal
<1> QED BY <1>1, <1>3

(* A call that returns holds nothing any more.                             *)
LEMMA ReturnLocal ==
    ASSUME IInv, NEW p \in Procs, NEW r \in Results, Return(p, r)
    PROVE  /\ files' = files /\ procs' \in [Procs -> Process]
           /\ \A q \in Procs : Local(procs'[q], files')
<1>1. Idle(r, {}) \in Process /\ Held(Idle(r, {}))
  BY IdleType DEF Held
<1>2. files \in Directory
  BY DEF IInv, TypeOK
<1> QED BY <1>1, <1>2, StepLocal, StepEffect DEF Return, Step

(* A call that goes on to its next system call.                            *)
LEMMA GotoLocal ==
    ASSUME IInv, NEW p \in Procs, procs[p].pc # "idle",
           NEW pc \in {"truncate", "get", "delete"},
           pc = "truncate" => procs[p].op \in {"create", "update"} /\ Valid(procs[p].arg),
           pc # "truncate" => procs[p].op = pc,
           Goto(p, pc)
    PROVE  /\ files' = files /\ procs' \in [Procs -> Process]
           /\ \A q \in Procs : Local(procs'[q], files')
<1> DEFINE c == procs[p]  r == [c EXCEPT !.pc = pc]
<1>1. c \in Process /\ Held(c) /\ files \in Directory
  BY DEF IInv, Local, TypeOK
<1>2. /\ r \in Process /\ r.pc = pc /\ r.op = c.op /\ r.arg = c.arg
  BY <1>1 DEF Process, Pcs
<1>3. Step(p, files, {}, r)
  BY DEF Goto
<1> HIDE DEF c, r
<1>4. ArgsFit(r)
  BY <1>1, <1>2 DEF Held, ArgsFit, c
<1>5. Held(r)
  BY <1>2, <1>4 DEF Held
<1> QED BY <1>1, <1>2, <1>3, <1>5, StepLocal DEF Step

-----------------------------------------------------------------------------
(* Each action keeps the processes within the invariant.                   *)

Kept == /\ files' \in Directory /\ procs' \in [Procs -> Process]
        /\ \A q \in Procs : Local(procs'[q], files')

(* A process that learns it is not alone is otherwise as it was.           *)
SameCall(s, w) ==
    /\ w \in Process
    /\ w.pc = s.pc /\ w.op = s.op /\ w.arg = s.arg /\ w.todo = s.todo
    /\ w.found = s.found /\ w.result = s.result /\ w.seen = s.seen
    /\ w.before = s.before

(* Marking a call as disturbed changes nothing else of it.                 *)
LEMMA NotAloneAnyMore ==
    ASSUME NEW s \in Process, NEW b \in BOOLEAN
    PROVE  /\ SameCall(s, [s EXCEPT !.alone = b])
           /\ [s EXCEPT !.alone = b].alone = b
BY DEF Process, SameCall

(* The form of a call does not depend on that mark.                        *)
LEMMA SameCallHeld ==
    ASSUME NEW s, NEW w, SameCall(s, w), Held(s)
    PROVE  Held(w)
BY DEF SameCall, Held, ArgsFit, Reading

Argument(op, profile) ==
    \/ op \in {"create", "update"} /\ profile \in Profile
    \/ op \in {"get", "delete"} /\ profile \in [id : Ids, body : {"none"}]
    \/ op = "list" /\ profile = [id |-> 0, body |-> "none"]

(* The process that begins a call, and the others.                         *)
LEMMA CallEffect ==
    ASSUME IInv, NEW p \in Procs, NEW op, NEW profile, Argument(op, profile),
           Call(p, op, profile)
    PROVE  /\ procs[p].pc = "idle" /\ files' = files
           /\ procs' \in [Procs -> Process]
           /\ procs'[p].pc = "enter" /\ procs'[p].op = op
           /\ procs'[p].arg = profile /\ procs'[p].before = files
           /\ procs'[p].seen = {files} /\ procs'[p].found = {}
           /\ procs'[p].alone => \A r \in Procs : ~Busy(r)
           /\ \A q \in Procs \ {p} :
                 SameCall(procs[q], procs'[q]) /\ (procs'[q].alone => ~Busy(q))
<1> DEFINE new == [Idle("none", {}) EXCEPT !.pc = "enter", !.op = op,
                       !.arg = profile, !.before = files, !.seen = {files},
                       !.alone = \A r \in Procs : ~Busy(r)]
<1>1. /\ procs[p].pc = "idle" /\ files' = files
      /\ procs' = [q \in Procs |-> IF q = p THEN new
                      ELSE [procs[q] EXCEPT !.alone = @ /\ ~Busy(q)]]
  BY DEF Call, Busy
<1>2. files \in Directory /\ \A q \in Procs : procs[q] \in Process
  BY DEF IInv, TypeOK
<1>3. op \in Ops /\ profile \in [id : Ids \cup {0}, body : Bodies \cup {"none"}]
  BY DEF Argument, Ops, Profile
<1>4. /\ new \in Process /\ new.pc = "enter" /\ new.op = op /\ new.arg = profile
      /\ new.before = files /\ new.seen = {files} /\ new.found = {}
      /\ new.alone = (\A r \in Procs : ~Busy(r))
  <2>1. Idle("none", {}) \in Process /\ Idle("none", {}).found = {}
    BY IdleType DEF Results
  <2> QED BY <1>2, <1>3, <2>1 DEF Process, Pcs, Busy
<1> HIDE DEF new
<1>5. ASSUME NEW q \in Procs \ {p}
      PROVE  SameCall(procs[q], procs'[q]) /\ (procs'[q].alone => ~Busy(q))
  <2> DEFINE b == procs[q].alone /\ ~Busy(q)
  <2>1. b \in BOOLEAN /\ (b => ~Busy(q))
    OBVIOUS
  <2>2. procs'[q] = [procs[q] EXCEPT !.alone = b]
    BY <1>1
  <2> HIDE DEF b
  <2>3. /\ SameCall(procs[q], [procs[q] EXCEPT !.alone = b])
        /\ [procs[q] EXCEPT !.alone = b].alone = b
    <3>1. procs[q] \in Process /\ b \in BOOLEAN
      BY <1>2, <2>1
    <3> QED BY <3>1, NotAloneAnyMore, Zenon
  <2>4. SameCall(procs[q], procs'[q]) /\ procs'[q].alone = b
    BY <2>2, <2>3, Zenon
  <2> QED BY <2>1, <2>4
<1>6. procs' \in [Procs -> Process] /\ procs'[p] = new
  BY <1>1, <1>4, <1>5 DEF SameCall
<1> QED BY <1>1, <1>4, <1>5, <1>6

(* A call begins.                                                          *)
LEMMA CallKept ==
    ASSUME IInv, NEW p \in Procs, NEW op, NEW profile, Argument(op, profile),
           Call(p, op, profile)
    PROVE  Kept
<1>1. /\ files' = files /\ procs' \in [Procs -> Process]
      /\ procs'[p].pc = "enter" /\ procs'[p].op = op
      /\ procs'[p].arg = profile /\ procs'[p].seen = {files}
      /\ procs'[p].found = {}
      /\ \A q \in Procs \ {p} : SameCall(procs[q], procs'[q])
  BY CallEffect
<1>2. Local(procs'[p], files)
  BY <1>1 DEF Local, Held, ArgsFit, Argument
<1>3. ASSUME NEW q \in Procs \ {p} PROVE Local(procs'[q], files)
  <2>1. procs[q] \in Process /\ Local(procs[q], files)
    BY DEF IInv
  <2> QED BY <1>1, <2>1, SameCallHeld DEF Local, SameCall
<1>4. files \in Directory
  BY DEF IInv, TypeOK
<1> QED BY <1>1, <1>2, <1>3, <1>4 DEF Kept

(* The store's look at the directory before it acts.                       *)
LEMMA EnterKept ==
    ASSUME IInv, NEW p \in Procs, EnterWrite(p) \/ EnterRead(p)
    PROVE  Kept
<1>1. files \in Directory
  BY DEF IInv, TypeOK
<1>2. CASE EnterWrite(p)
  <2>1. procs[p].pc # "idle" /\ procs[p].op \in {"create", "update"}
    BY <1>2 DEF EnterWrite, At
  <2>2. \/ \E r \in Results : Return(p, r)
        \/ Valid(procs[p].arg) /\ Goto(p, "truncate")
    BY <1>2 DEF EnterWrite, Results
  <2> QED BY <1>1, <2>1, <2>2, ReturnLocal, GotoLocal DEF Kept
<1>3. CASE EnterRead(p)
  <2>1. procs[p].pc # "idle" /\ procs[p].op \in {"get", "delete"}
    BY <1>3 DEF EnterRead, At
  <2>2. \/ \E r \in Results : Return(p, r)
        \/ Goto(p, procs[p].op)
    BY <1>3 DEF EnterRead, Results
  <2> QED BY <1>1, <2>1, <2>2, ReturnLocal, GotoLocal DEF Kept
<1> QED BY <1>2, <1>3

(* A call that reads, writes or deletes one file has an id, and one that   *)
(* writes has a profile of that id.                                        *)
LEMMA ArgId ==
    ASSUME IInv, NEW p \in Procs,
           procs[p].pc \in {"truncate", "write", "orphan", "get", "delete"}
    PROVE  /\ procs[p].arg.id \in Ids
           /\ procs[p].pc \in {"truncate", "write", "orphan"} =>
                 /\ procs[p].arg \in Profile
                 /\ Sound(procs[p].arg.id, procs[p].arg)
<1>1. ArgsFit(procs[p])
  BY DEF IInv, Local, Held
<1>2. procs[p].pc \in {"truncate", "write", "orphan"} => procs[p].arg \in Profile
  BY <1>1 DEF ArgsFit
<1> QED BY <1>1, <1>2, StoreAssumption DEF ArgsFit, Profile, Sound

(* fs::write empties the file first.                                       *)
LEMMA TruncateKept ==
    ASSUME IInv, NEW p \in Procs, Truncate(p)
    PROVE  Kept
<1> DEFINE c == procs[p]  dir == [files EXCEPT ![c.arg.id] = Empty]
           r == [c EXCEPT !.pc = "write"]
<1>1. c.pc = "truncate" /\ Step(p, dir, {}, r)
  BY DEF Truncate
<1>2. c \in Process /\ Held(c) /\ c.arg.id \in Ids /\ files \in Directory
  BY <1>1, ArgId DEF IInv, Local, TypeOK
<1>3. dir \in Directory
  BY <1>2 DEF Directory, NoProfile
<1>4. r \in Process /\ r.pc = "write" /\ r.op = c.op /\ r.arg = c.arg
  BY <1>2 DEF Process, Pcs
<1>5. Held(r)
  BY <1>1, <1>2, <1>4 DEF Held, ArgsFit
<1> QED BY <1>1, <1>3, <1>4, <1>5, StepLocal DEF Kept

(* The text is written, in part, or to a file that is gone.                *)
LEMMA WriteKept ==
    ASSUME IInv, NEW p \in Procs, Write(p) \/ WriteOrphan(p) \/ WriteFails(p)
    PROVE  Kept
<1>1. files \in Directory
  BY DEF IInv, TypeOK
<1>2. CASE Write(p)
  <2> DEFINE c == procs[p]
  <2>1. PICK content \in {c.arg, Mixed} :
            Step(p, [files EXCEPT ![c.arg.id] = content], {}, Idle("Ok", {}))
    BY <1>2 DEF Write
  <2>2. c.arg.id \in Ids /\ c.arg \in Profile
    BY <1>2, ArgId DEF Write
  <2>3. [files EXCEPT ![c.arg.id] = content] \in Directory
    BY <1>1, <2>2 DEF Directory, NoProfile
  <2>4. Idle("Ok", {}) \in Process /\ Held(Idle("Ok", {}))
    BY IdleType DEF Held, Results
  <2> QED BY <2>1, <2>3, <2>4, StepLocal DEF Kept
<1>3. CASE WriteOrphan(p) \/ WriteFails(p)
  <2>1. \E r \in Results : Return(p, r)
    BY <1>3 DEF WriteOrphan, WriteFails, Results
  <2> QED BY <1>1, <2>1, ReturnLocal DEF Kept
<1> QED BY <1>2, <1>3

(* A file is removed.                                                      *)
LEMMA RemoveKept ==
    ASSUME IInv, NEW p \in Procs, Remove(p)
    PROVE  Kept
<1> DEFINE id == procs[p].arg.id  dir == [files EXCEPT ![id] = NoFile]
<1>1. PICK res \in Results : procs[p].pc = "delete" /\ Step(p, dir, {id}, Idle(res, {}))
  BY DEF Remove, Results
<1>2. files \in Directory /\ id \in Ids
  BY <1>1, ArgId DEF IInv, TypeOK
<1>3. dir \in Directory
  BY <1>2 DEF Directory, NoProfile
<1>4. Idle(res, {}) \in Process /\ Held(Idle(res, {}))
  BY IdleType DEF Held
<1> QED BY <1>1, <1>3, <1>4, StepLocal DEF Kept

(* One profile is read.                                                    *)
LEMMA ReadOneKept ==
    ASSUME IInv, NEW p \in Procs, ReadOne(p)
    PROVE  Kept
<1> DEFINE id == procs[p].arg.id
<1>1. files \in Directory
  BY DEF IInv, TypeOK
<1>2. procs[p].pc = "get" /\ id \in Ids
  BY ArgId DEF ReadOne
<1>3. \/ \E r \in Results : Return(p, r)
      \/ Sound(id, files[id]) /\ Step(p, files, {}, Idle("Ok", {files[id]}))
  BY DEF ReadOne, Results
<1>4. CASE Sound(id, files[id]) /\ Step(p, files, {}, Idle("Ok", {files[id]}))
  <2>1. files[id] \in Profile
    BY <1>1, <1>2, <1>4 DEF Directory, Sound
  <2>2. Idle("Ok", {files[id]}) \in Process /\ Held(Idle("Ok", {files[id]}))
    BY <2>1, IdleType DEF Held, Results
  <2> QED BY <1>1, <1>4, <2>2, StepLocal DEF Kept
<1> QED BY <1>1, <1>3, <1>4, ReturnLocal DEF Kept

(* The first of the files a listing has still to read is one of them.      *)
LEMMA FirstOfTodo ==
    ASSUME NEW T \in SUBSET Ids, T # {}
    PROVE  (CHOOSE i \in T : \A j \in T : i <= j) \in T
<1> DEFINE R == {ss \in Nat \X Nat : ss[1] < ss[2]}
<1>1. IsWellFoundedOn(R, Nat)
  BY NatLessThanWellFounded DEF OpToRel
<1>2. T \subseteq Nat
  BY StoreAssumption
<1> HIDE DEF R
<1>3. PICK x \in T : \A y \in T : ~(<<y, x>> \in R)
  BY <1>1, <1>2, WFMin
<1>4. \A y \in T : x <= y
  <2> TAKE y \in T
  <2>1. x \in Nat /\ y \in Nat
    BY <1>2
  <2>2. y < x => <<y, x>> \in R
    BY <2>1 DEF R
  <2> QED BY <1>3, <2>1, <2>2
<1> QED BY <1>4

(* The directory is read.                                                  *)
LEMMA ReadDirKept ==
    ASSUME IInv, NEW p \in Procs, ReadDir(p)
    PROVE  Kept
<1> DEFINE c == procs[p]  D == { i \in Ids : files[i] # NoFile }
           r == [c EXCEPT !.pc = "list", !.todo = D]
<1>1. c.pc = "enter" /\ c.op = "list" /\ Step(p, files, {}, r)
  BY DEF ReadDir, At
<1>2. c \in Process /\ Local(c, files) /\ files \in Directory
  BY DEF IInv, TypeOK
<1>3. c.found = {} /\ files \in c.seen
  BY <1>1, <1>2 DEF Local, Held, ArgsFit
<1>4. /\ r \in Process /\ r.pc = "list" /\ r.op = "list" /\ r.todo = D
      /\ r.found = c.found /\ r.seen = c.seen
  BY <1>1, <1>2 DEF Process, Pcs
<1> HIDE DEF r, c
<1>5. Reading(r)
  BY <1>3, <1>4 DEF Reading
<1>6. Held(r)
  BY <1>4, <1>5 DEF Held, ArgsFit
<1> QED BY <1>1, <1>2, <1>4, <1>6, StepLocal DEF Kept

(* The next file of a listing: what the call then is.                      *)
LEMMA ReadNextCases ==
    ASSUME IInv, NEW p \in Procs, ReadNext(p)
    PROVE  LET c == procs[p] IN
           /\ c.pc = "list" /\ c.op = "list" /\ Reading(c) /\ files \in c.seen
           /\ \/ c.todo = {} /\ Step(p, files, {}, Idle("Ok", c.found))
              \/ \E id \in c.todo : files[id] = NoFile /\ Return(p, "Io")
              \/ \E id \in c.todo : /\ files[id] # NoFile /\ ~Sound(id, files[id])
                                    /\ Return(p, "Malformed")
              \/ \E id \in c.todo :
                    /\ Sound(id, files[id])
                    /\ Step(p, files, {}, [c EXCEPT !.todo = @ \ {id},
                                                    !.found = @ \cup {files[id]}])
<1> DEFINE c == procs[p]
           id == CHOOSE i \in c.todo : \A j \in c.todo : i <= j
<1>1. c.pc = "list" /\ c \in Process /\ Local(c, files)
  BY DEF ReadNext, IInv
<1>2. c.op = "list" /\ Reading(c) /\ files \in c.seen /\ c.todo \in SUBSET Ids
  BY <1>1 DEF Local, Held, ArgsFit, Process
<1>3. c.todo # {} => id \in c.todo
  BY <1>2, FirstOfTodo
<1>4. \/ c.todo = {} /\ Step(p, files, {}, Idle("Ok", c.found))
      \/ c.todo # {} /\ files[id] = NoFile /\ Return(p, "Io")
      \/ /\ c.todo # {} /\ files[id] # NoFile /\ ~Sound(id, files[id])
         /\ Return(p, "Malformed")
      \/ /\ c.todo # {} /\ Sound(id, files[id])
         /\ Step(p, files, {}, [c EXCEPT !.todo = @ \ {id},
                                         !.found = @ \cup {files[id]}])
  BY DEF ReadNext
<1> QED BY <1>1, <1>2, <1>3, <1>4

(* A file of the listing is read.                                          *)
LEMMA ReadNextKept ==
    ASSUME IInv, NEW p \in Procs, ReadNext(p)
    PROVE  Kept
<1> DEFINE c == procs[p]
<1>1. c \in Process /\ files \in Directory
  BY DEF IInv, TypeOK
<1>2. c.pc = "list" /\ c.op = "list" /\ Reading(c) /\ files \in c.seen
  BY ReadNextCases
<1>3. CASE Step(p, files, {}, Idle("Ok", c.found))
  <2>1. Idle("Ok", c.found) \in Process /\ Held(Idle("Ok", c.found))
    BY <1>1, IdleType DEF Held, Process, Results
  <2> QED BY <1>1, <1>3, <2>1, StepLocal DEF Kept
<1>4. CASE Return(p, "Io") \/ Return(p, "Malformed")
  BY <1>1, <1>4, ReturnLocal DEF Kept, Results
<1>5. ASSUME NEW id \in c.todo, Sound(id, files[id]),
             Step(p, files, {}, [c EXCEPT !.todo = @ \ {id},
                                          !.found = @ \cup {files[id]}])
      PROVE  Kept
  <2> DEFINE r == [c EXCEPT !.todo = @ \ {id}, !.found = @ \cup {files[id]}]
  <2>1. /\ id \in Ids /\ files[id] \in Profile /\ files[id].id = id
        /\ Valid(files[id])
    BY <1>1, <1>5 DEF Process, Directory, Sound
  <2>2. /\ r \in Process /\ r.pc = c.pc /\ r.op = c.op /\ r.seen = c.seen
        /\ r.todo = c.todo \ {id} /\ r.found = c.found \cup {files[id]}
    BY <1>1, <2>1 DEF Process
  <2>3. Step(p, files, {}, r)
    BY <1>5
  <2> HIDE DEF r
  <2>4. Reading(r)
    BY <1>2, <2>1, <2>2 DEF Reading
  <2>5. Held(r)
    BY <1>2, <2>2, <2>4 DEF Held, ArgsFit
  <2> QED BY <1>1, <2>2, <2>3, <2>5, StepLocal DEF Kept
<1> QED BY <1>3, <1>4, <1>5, ReadNextCases

(* A process is killed between two system calls.                           *)
LEMMA KillKept ==
    ASSUME IInv, NEW p \in Procs, Kill(p)
    PROVE  Kept
<1>1. files' = files /\ procs' = [procs EXCEPT ![p] = Idle("killed", {})]
  BY DEF Kill
<1>2. Idle("killed", {}) \in Process /\ Local(Idle("killed", {}), files)
  BY IdleType DEF Local, Held, Results
<1> QED BY <1>1, <1>2 DEF IInv, TypeOK, Kept

(* An edit: every process learns that it is not alone.                     *)
LEMMA EditEffect ==
    ASSUME IInv, NEW id \in Ids, NEW profile \in Profile, Edit(id, profile)
    PROVE  /\ files' = [files EXCEPT ![id] = profile] /\ files' \in Directory
           /\ procs' \in [Procs -> Process]
           /\ \A q \in Procs : \E w \in Process :
                 /\ SameCall(procs[q], w) /\ (w.alone => ~Busy(q))
                 /\ procs'[q] = Witness(w, files', {id})
<1>1. /\ files' = [files EXCEPT ![id] = profile]
      /\ procs' = [q \in Procs |->
            Witness([procs[q] EXCEPT !.alone = @ /\ ~Busy(q)], files', {id})]
  BY DEF Edit
<1>2. files' \in Directory
  BY <1>1 DEF IInv, TypeOK, Directory
<1>3. ASSUME NEW q \in Procs
      PROVE  \E w \in Process :
                 /\ SameCall(procs[q], w) /\ (w.alone => ~Busy(q))
                 /\ procs'[q] = Witness(w, files', {id})
  <2> DEFINE b == procs[q].alone /\ ~Busy(q)
             w == [procs[q] EXCEPT !.alone = b]
  <2>1. b \in BOOLEAN /\ (b => ~Busy(q))
    OBVIOUS
  <2>2. procs'[q] = Witness(w, files', {id})
    BY <1>1
  <2>3. procs[q] \in Process
    BY DEF IInv
  <2> HIDE DEF b
  <2>4. SameCall(procs[q], w) /\ w.alone = b
    BY <2>1, <2>3, NotAloneAnyMore, Zenon
  <2> HIDE DEF w
  <2>5. w \in Process /\ (w.alone => ~Busy(q))
    BY <2>1, <2>4 DEF SameCall
  <2> QED BY <2>2, <2>4, <2>5
<1>4. procs' \in [Procs -> Process]
  <2>1. \A q \in Procs : procs'[q] \in Process
    BY <1>2, <1>3, WitnessFields
  <2>2. procs' = [q \in Procs |-> procs'[q]]
    BY <1>1
  <2> QED BY <2>1, <2>2
<1> QED BY <1>1, <1>2, <1>3, <1>4

(* The user edits a file.                                                  *)
LEMMA EditKept ==
    ASSUME IInv, NEW id \in Ids, NEW profile \in Profile, Edit(id, profile)
    PROVE  Kept
<1>1. files' \in Directory /\ procs' \in [Procs -> Process]
  BY EditEffect
<1>2. ASSUME NEW q \in Procs PROVE Local(procs'[q], files')
  <2>1. PICK w \in Process : /\ SameCall(procs[q], w)
                             /\ procs'[q] = Witness(w, files', {id})
    BY EditEffect
  <2>2. Held(w)
    BY <2>1, SameCallHeld DEF IInv, Local
  <2> QED BY <1>1, <2>1, <2>2, WitnessLocal
<1> QED BY <1>1, <1>2 DEF Kept

-----------------------------------------------------------------------------
(* Types.                                                                  *)

(* The steps of the system, one disjunct for each action.                  *)
LEMMA StepCases ==
    ASSUME [Next]_vars
    PROVE  \/ \E p \in Procs :
                 \/ \E op, profile : Argument(op, profile) /\ Call(p, op, profile)
                 \/ EnterWrite(p) \/ Truncate(p)
                 \/ Write(p) \/ WriteOrphan(p) \/ WriteFails(p)
                 \/ EnterRead(p) \/ Remove(p) \/ ReadOne(p)
                 \/ ReadDir(p) \/ ReadNext(p) \/ Kill(p)
           \/ \E i \in Ids, profile \in Profile : Edit(i, profile)
           \/ UNCHANGED vars
<1>1. ASSUME NEW p \in Procs, NEW op \in {"create", "update"},
             NEW profile \in Profile, Call(p, op, profile)
      PROVE  Argument(op, profile)
  BY DEF Argument
<1>2. ASSUME NEW p \in Procs, NEW op \in {"get", "delete"}, NEW i \in Ids,
             Call(p, op, [id |-> i, body |-> "none"])
      PROVE  Argument(op, [id |-> i, body |-> "none"])
  BY DEF Argument
<1>3. Argument("list", [id |-> 0, body |-> "none"])
  BY DEF Argument
<1> QED BY <1>1, <1>2, <1>3 DEF Next

(* Every step keeps the types and the form of every call.                  *)
LEMMA NextKept ==
    ASSUME IInv, [Next]_vars
    PROVE  Kept
<1>1. CASE UNCHANGED vars
  BY <1>1 DEF vars, IInv, TypeOK, Kept
<1> QED BY <1>1, StepCases, CallKept, EnterKept, TruncateKept, WriteKept,
           RemoveKept, ReadOneKept, ReadDirKept, ReadNextKept, KillKept, EditKept

(* The marks on files name files, and the bounds hold.                     *)
LEMMA NextMarks ==
    ASSUME IInv, [Next]_vars
    PROVE  /\ torn' \subseteq Ids /\ edited' \subseteq Ids
           /\ calls' \in 0 .. MaxCalls /\ faults' \in 0 .. MaxFaults
           /\ edits' \in 0 .. MaxEdits
<1>0. /\ torn \subseteq Ids /\ edited \subseteq Ids
      /\ calls \in 0 .. MaxCalls /\ faults \in 0 .. MaxFaults
      /\ edits \in 0 .. MaxEdits
  BY DEF IInv, TypeOK
<1> USE <1>0, StoreAssumption
<1>1. CASE UNCHANGED vars
  BY <1>1 DEF vars
<1>2. ASSUME NEW p \in Procs, NEW op, NEW profile, Call(p, op, profile)
      PROVE  /\ UNCHANGED <<torn, edited, faults, edits>>
             /\ calls' \in 0 .. MaxCalls
  <2>1. calls < MaxCalls /\ calls' = calls + 1
    BY <1>2, Zenon DEF Call
  <2>2. UNCHANGED <<torn, edited, faults, edits>>
    BY <1>2, Zenon DEF Call
  <2> QED BY <2>1, <2>2
<1>3. ASSUME NEW p \in Procs,
             \/ EnterWrite(p) \/ Truncate(p) \/ WriteOrphan(p) \/ EnterRead(p)
             \/ ReadOne(p) \/ ReadDir(p) \/ ReadNext(p)
      PROVE  UNCHANGED <<torn, edited, calls, faults, edits>>
  BY <1>3 DEF EnterWrite, Truncate, WriteOrphan, EnterRead, ReadOne, ReadDir, ReadNext
<1>4. ASSUME NEW p \in Procs, Write(p) \/ Remove(p)
      PROVE  /\ UNCHANGED <<calls, faults, edits>>
             /\ torn' \subseteq Ids /\ edited' \subseteq Ids
  <2>1. procs[p].arg.id \in Ids
    BY <1>4, ArgId DEF Write, Remove
  <2> QED BY <1>4, <2>1 DEF Write, Remove
<1>5. ASSUME NEW p \in Procs, WriteFails(p) \/ Kill(p)
      PROVE  /\ UNCHANGED <<edited, calls, edits>>
             /\ torn' \subseteq Ids /\ faults' \in 0 .. MaxFaults
  <2>1. procs[p].pc = "write" => procs[p].arg.id \in Ids
    BY ArgId
  <2>2. faults < MaxFaults /\ faults' = faults + 1 /\ UNCHANGED <<edited, calls, edits>>
    BY <1>5 DEF WriteFails, Kill
  <2>3. torn' = torn \/ (procs[p].pc = "write" /\ torn' = torn \cup {procs[p].arg.id})
    BY <1>5 DEF WriteFails, Kill
  <2>4. torn' \subseteq Ids
    BY <2>1, <2>3
  <2>5. faults' \in 0 .. MaxFaults
    BY <2>2
  <2> QED BY <2>2, <2>4, <2>5
<1>6. ASSUME NEW i \in Ids, NEW profile \in Profile, Edit(i, profile)
      PROVE  /\ UNCHANGED <<calls, faults>> /\ edits' \in 0 .. MaxEdits
             /\ torn' \subseteq Ids /\ edited' \subseteq Ids
  BY <1>6 DEF Edit
<1> QED BY <1>1, <1>2, <1>3, <1>4, <1>5, <1>6, StepCases

(* The fields of a process.                                                *)
LEMMA ProcessTypes ==
    ASSUME NEW f \in [Procs -> Process], NEW p \in Procs
    PROVE  /\ f[p].pc \in Pcs /\ f[p].todo \subseteq Ids
           /\ f[p].found \subseteq Profile /\ f[p].result \in Results
           /\ f[p].seen \subseteq Directory /\ f[p].alone \in BOOLEAN
BY DEF Process

(* The invariant holds at the start.                                       *)
LEMMA InitIInv == Init => IInv
<1> SUFFICES ASSUME Init PROVE IInv
  OBVIOUS
<1>1. Idle("none", {}) \in Process /\ Idle("none", {}).pc = "idle"
  BY IdleType DEF Results
<1>2. procs \in [Procs -> Process] /\ \A p \in Procs : procs[p] = Idle("none", {})
  BY <1>1 DEF Init
<1>3. files \in Directory
  BY DEF Init, Directory, NoProfile
<1>4. TypeOK
  BY <1>2, <1>3, ProcessTypes, StoreAssumption DEF Init, TypeOK, Pcs
<1>5. \A p \in Procs : Local(procs[p], files)
  BY <1>1, <1>2 DEF Local, Held
<1> QED BY <1>2, <1>4, <1>5 DEF IInv

(* Every step keeps it.                                                    *)
LEMMA NextIInv == IInv /\ [Next]_vars => IInv'
<1> SUFFICES ASSUME IInv, [Next]_vars PROVE IInv'
  OBVIOUS
<1>1. Kept
  BY NextKept
<1>2. TypeOK'
  BY <1>1, NextMarks, ProcessTypes DEF Kept, TypeOK, Pcs
<1> QED BY <1>1, <1>2 DEF Kept, IInv

(* The inductive invariant holds throughout every execution.               *)
THEOREM Invariance == Spec => []IInv
BY InitIInv, NextIInv, PTL DEF Spec

(* The types of the directory and of every process's call.                 *)
THEOREM TypeCorrect == Spec => []TypeOK
<1>1. IInv => TypeOK
  BY DEF IInv
<1> QED BY <1>1, Invariance, PTL

-----------------------------------------------------------------------------
(* Sound files.                                                            *)

(* A process that is writing goes on writing, the same profile, unless its *)
(* file is unlinked or the step is its own.                                *)
LEMMA WriterStays ==
    ASSUME IInv, NEW p \in Procs, NEW dir \in Directory, NEW u,
           NEW r \in Process, Step(p, dir, u, r),
           NEW i, i \notin u, procs[p].pc = "write" => procs[p].arg.id # i,
           Writing(i)
    PROVE  Writing(i)'
<1>1. PICK q \in Procs : procs[q].pc = "write" /\ procs[q].arg.id = i
  BY DEF Writing
<1>2. procs[q] \in Process /\ procs'[q] = Witness(procs[q], dir, u)
  BY <1>1, StepEffect DEF IInv
<1>3. procs'[q].pc = "write" /\ procs'[q].arg = procs[q].arg
  BY <1>1, <1>2, WitnessFields
<1> QED BY <1>1, <1>3 DEF Writing

(* The steps that touch no file, of a process that is not writing.         *)
LEMMA ReadersTouchNothing ==
    ASSUME IInv, NEW p \in Procs,
           \/ EnterWrite(p) \/ WriteOrphan(p) \/ EnterRead(p)
           \/ ReadOne(p) \/ ReadDir(p) \/ ReadNext(p)
    PROVE  /\ procs[p].pc # "write" /\ UNCHANGED <<files, torn, edited>>
           /\ \E r \in Process : Step(p, files, {}, r)
<1>0. procs[p] \in Process /\ files \in Directory
  BY DEF IInv, TypeOK
<1>1. \A r \in Results : Idle(r, {}) \in Process
  BY IdleType
<1>2. ASSUME NEW pc \in Pcs PROVE [procs[p] EXCEPT !.pc = pc] \in Process
  BY <1>0, <1>2 DEF Process
<1>3. CASE EnterWrite(p) \/ WriteOrphan(p) \/ EnterRead(p)
  <2>1. \/ \E r \in Results : Return(p, r)
        \/ Goto(p, "truncate")
        \/ procs[p].op \in {"get", "delete"} /\ Goto(p, procs[p].op)
    BY <1>3 DEF EnterWrite, WriteOrphan, EnterRead, At, Results
  <2>2. \E r \in Process : Step(p, files, {}, r)
    BY <1>1, <1>2, <2>1 DEF Return, Goto, Pcs
  <2> QED BY <1>3, <2>2 DEF EnterWrite, WriteOrphan, EnterRead, At, Step
<1>4. CASE ReadOne(p)
  <2>1. procs[p].pc = "get" /\ procs[p].arg.id \in Ids
    BY <1>4, ArgId DEF ReadOne
  <2>2. Sound(procs[p].arg.id, files[procs[p].arg.id]) =>
            {files[procs[p].arg.id]} \in SUBSET Profile
    BY <1>0, <2>1 DEF Sound, Directory
  <2>3. \E r \in Process : Step(p, files, {}, r)
    BY <1>1, <1>4, <2>2, IdleType DEF ReadOne, Return, Results
  <2> QED BY <1>4, <2>1, <2>3 DEF ReadOne, Step
<1>5. CASE ReadDir(p)
  <2> DEFINE D == { i \in Ids : files[i] # NoFile }
  <2>1. [procs[p] EXCEPT !.pc = "list", !.todo = D] \in Process
    BY <1>0 DEF Process, Pcs
  <2>2. \E r \in Process : Step(p, files, {}, r)
    BY <1>5, <2>1 DEF ReadDir
  <2> QED BY <1>5, <2>2 DEF ReadDir, At, Step
<1>6. CASE ReadNext(p)
  <2>1. Idle("Ok", procs[p].found) \in Process
    BY <1>0, IdleType DEF Process, Results
  <2>2. ASSUME NEW id \in procs[p].todo, Sound(id, files[id])
        PROVE  [procs[p] EXCEPT !.todo = @ \ {id},
                                !.found = @ \cup {files[id]}] \in Process
    <3>1. id \in Ids /\ files[id] \in Profile
      BY <1>0, <2>2 DEF Process, Directory, Sound
    <3> QED BY <1>0, <3>1 DEF Process
  <2>3. \E r \in Process : Step(p, files, {}, r)
    BY <1>1, <1>6, <2>1, <2>2, ReadNextCases DEF Return, Results
  <2>4. procs[p].pc = "list" /\ UNCHANGED <<torn, edited>>
    BY <1>6 DEF ReadNext
  <2> QED BY <2>3, <2>4 DEF Step
<1> QED BY <1>3, <1>4, <1>5, <1>6

(* No step damages a file other than the one being written.                *)
LEMMA NextSound ==
    ASSUME IInv, SoundUnlessTorn, [Next]_vars
    PROVE  SoundUnlessTorn'
<1>0. files \in Directory /\ procs \in [Procs -> Process]
  BY DEF IInv, TypeOK
<1>1. ASSUME NEW p \in Procs,
             \/ EnterWrite(p) \/ WriteOrphan(p) \/ EnterRead(p)
             \/ ReadOne(p) \/ ReadDir(p) \/ ReadNext(p)
      PROVE  SoundUnlessTorn'
  <2>1. /\ procs[p].pc # "write" /\ UNCHANGED <<files, torn, edited>>
        /\ \E r \in Process : Step(p, files, {}, r)
    BY <1>1, ReadersTouchNothing
  <2>2. \A i \in Ids : Writing(i) => Writing(i)'
    BY <1>0, <2>1, WriterStays
  <2> QED BY <2>1, <2>2 DEF SoundUnlessTorn, Sound
<1>2. ASSUME NEW p \in Procs, Truncate(p) PROVE SoundUnlessTorn'
  <2> DEFINE c == procs[p]  id == c.arg.id
             dir == [files EXCEPT ![id] = Empty]  r == [c EXCEPT !.pc = "write"]
  <2>1. c.pc = "truncate" /\ Step(p, dir, {}, r) /\ UNCHANGED <<torn, edited>>
    BY <1>2 DEF Truncate
  <2>2. id \in Ids
    BY <2>1, ArgId
  <2>3. dir \in Directory
    BY <1>0, <2>2 DEF Directory, NoProfile
  <2>4. r \in Process /\ r.pc = "write" /\ r.arg = c.arg
    BY <1>0 DEF Process, Pcs
  <2> HIDE DEF r
  <2>5. files' = dir /\ procs'[p].pc = "write" /\ procs'[p].arg.id = id
    BY <1>0, <2>1, <2>3, <2>4, StepEffect, WitnessFields
  <2>6. \A i \in Ids : i = id => Writing(i)'
    BY <2>5 DEF Writing
  <2>7. \A i \in Ids : Writing(i) => Writing(i)'
    BY <2>1, <2>3, <2>4, WriterStays
  <2>8. files'[id] = Empty /\ \A i \in Ids \ {id} : files'[i] = files[i]
    BY <1>0, <2>2, <2>5 DEF Directory
  <2>9. UNCHANGED <<torn, edited>>
    BY <2>1
  <2> HIDE DEF id, dir, c
  <2> QED BY <2>6, <2>7, <2>8, <2>9 DEF SoundUnlessTorn, Sound
<1>3. ASSUME NEW p \in Procs, Write(p) PROVE SoundUnlessTorn'
  <2> DEFINE c == procs[p]  id == c.arg.id
  <2>1. PICK content \in {c.arg, Mixed} :
          /\ Step(p, [files EXCEPT ![id] = content], {}, Idle("Ok", {}))
          /\ torn' = IF content = Mixed THEN torn \cup {id} ELSE torn \ {id}
    BY <1>3 DEF Write
  <2>2. c.pc = "write" /\ edited' = edited \ {id}
    BY <1>3 DEF Write
  <2>3. id \in Ids /\ c.arg \in Profile /\ Sound(id, c.arg)
    BY <2>2, ArgId
  <2>4. [files EXCEPT ![id] = content] \in Directory
    BY <1>0, <2>3 DEF Directory, NoProfile
  <2>5. Idle("Ok", {}) \in Process
    BY IdleType DEF Results
  <2>6. \A i \in Ids \ {id} : Writing(i) => Writing(i)'
    BY <2>1, <2>2, <2>4, <2>5, WriterStays
  <2>7. files'[id] = content /\ \A i \in Ids \ {id} : files'[i] = files[i]
    BY <1>0, <2>1, <2>3 DEF Directory, Step
  <2>8. Sound(id, files'[id]) \/ id \in torn'
    BY <2>1, <2>3, <2>7
  <2>9. \A i \in Ids \ {id} : i \in torn \cup edited => i \in torn' \cup edited'
    BY <2>1, <2>2
  <2> QED BY <2>6, <2>7, <2>8, <2>9 DEF SoundUnlessTorn, Sound
<1>4. ASSUME NEW p \in Procs, WriteFails(p) PROVE SoundUnlessTorn'
  <2> DEFINE id == procs[p].arg.id
  <2>1. /\ procs[p].pc = "write" /\ Step(p, files, {}, Idle("Io", {}))
        /\ torn' = IF files[id] = Empty THEN torn \cup {id} ELSE torn
        /\ edited' = edited
    BY <1>4 DEF WriteFails, Return
  <2>2. Idle("Io", {}) \in Process
    BY IdleType DEF Results
  <2>3. \A i \in Ids \ {id} : Writing(i) => Writing(i)'
    BY <1>0, <2>1, <2>2, WriterStays
  <2>4. files' = files
    BY <2>1 DEF Step
  <2> QED BY <2>1, <2>3, <2>4 DEF SoundUnlessTorn, Sound
<1>5. ASSUME NEW p \in Procs, Remove(p) PROVE SoundUnlessTorn'
  <2> DEFINE id == procs[p].arg.id  dir == [files EXCEPT ![id] = NoFile]
  <2>1. PICK res \in Results : Step(p, dir, {id}, Idle(res, {}))
    BY <1>5 DEF Remove, Results
  <2>2. procs[p].pc = "delete" /\ torn' = torn \ {id} /\ edited' = edited \ {id}
    BY <1>5 DEF Remove
  <2>3. id \in Ids
    BY <2>2, ArgId
  <2>4. dir \in Directory
    BY <1>0, <2>3 DEF Directory, NoProfile
  <2>5. Idle(res, {}) \in Process
    BY IdleType
  <2>6. \A i \in Ids \ {id} : Writing(i) => Writing(i)'
    BY <2>1, <2>2, <2>4, <2>5, WriterStays
  <2>7. files'[id] = NoFile /\ \A i \in Ids \ {id} : files'[i] = files[i]
    BY <1>0, <2>1, <2>3 DEF Directory, Step
  <2> QED BY <2>2, <2>6, <2>7 DEF SoundUnlessTorn, Sound
<1>6. ASSUME NEW p \in Procs, Kill(p) PROVE SoundUnlessTorn'
  <2> DEFINE id == procs[p].arg.id
  <2>1. /\ procs' = [procs EXCEPT ![p] = Idle("killed", {})] /\ files' = files
        /\ torn' = IF procs[p].pc = "write" /\ files[id] = Empty
                   THEN torn \cup {id} ELSE torn
        /\ edited' = edited
    BY <1>6 DEF Kill
  <2>2. ASSUME NEW i \in Ids, Writing(i), ~(procs[p].pc = "write" /\ i = id)
        PROVE  Writing(i)'
    <3>1. PICK q \in Procs : procs[q].pc = "write" /\ procs[q].arg.id = i
      BY <2>2 DEF Writing
    <3>2. q # p
      BY <2>2, <3>1
    <3>3. procs'[q] = procs[q]
      BY <1>0, <2>1, <3>2
    <3> QED BY <3>1, <3>3 DEF Writing
  <2> QED BY <2>1, <2>2 DEF SoundUnlessTorn, Sound
<1>7. ASSUME NEW p \in Procs, NEW op, NEW profile, Argument(op, profile),
             Call(p, op, profile)
      PROVE  SoundUnlessTorn'
  <2>1. /\ procs[p].pc = "idle" /\ files' = files
        /\ \A q \in Procs \ {p} : SameCall(procs[q], procs'[q])
    BY <1>7, CallEffect
  <2>2. UNCHANGED <<torn, edited>>
    BY <1>7, Zenon DEF Call
  <2>3. \A i \in Ids : Writing(i) => Writing(i)'
    BY <2>1 DEF Writing, SameCall
  <2> QED BY <2>1, <2>2, <2>3 DEF SoundUnlessTorn, Sound
<1>8. ASSUME NEW id \in Ids, NEW profile \in Profile, Edit(id, profile)
      PROVE  SoundUnlessTorn'
  <2>1. /\ files' = [files EXCEPT ![id] = profile] /\ files' \in Directory
        /\ \A q \in Procs : \E w \in Process :
              SameCall(procs[q], w) /\ procs'[q] = Witness(w, files', {id})
    BY <1>8, EditEffect
  <2>2. edited' = edited \cup {id} /\ torn' = torn \ {id}
    BY <1>8, Zenon DEF Edit
  <2>3. \A i \in Ids \ {id} : Writing(i) => Writing(i)'
    <3> SUFFICES ASSUME NEW i \in Ids \ {id}, Writing(i) PROVE Writing(i)'
      OBVIOUS
    <3>1. PICK q \in Procs : procs[q].pc = "write" /\ procs[q].arg.id = i
      BY DEF Writing
    <3>2. PICK w \in Process :
              SameCall(procs[q], w) /\ procs'[q] = Witness(w, files', {id})
      BY <2>1
    <3>3. w.pc = "write" /\ w.arg.id = i
      BY <3>1, <3>2 DEF SameCall
    <3>4. procs'[q].pc = "write" /\ procs'[q].arg.id = i
      BY <2>1, <3>2, <3>3, WitnessFields
    <3> QED BY <3>4 DEF Writing
  <2>4. \A i \in Ids \ {id} : files'[i] = files[i]
    BY <1>0, <2>1 DEF Directory
  <2> QED BY <2>2, <2>3, <2>4 DEF SoundUnlessTorn, Sound
<1>9. CASE UNCHANGED vars
  BY <1>9 DEF vars, SoundUnlessTorn, Sound, Writing
<1> QED BY <1>1, <1>2, <1>3, <1>4, <1>5, <1>6, <1>7, <1>8, <1>9, StepCases

(* "Safe persistence" as far as it goes, for any number of processes: a    *)
(* file nobody is writing, whose last write was neither interrupted nor    *)
(* mixed with another and which the user left alone, holds a valid profile *)
(* under its own id.                                                       *)
THEOREM SafePersistence == Spec => []SoundUnlessTorn
<1>1. Init => SoundUnlessTorn
  BY DEF Init, SoundUnlessTorn
<1>2. IInv /\ SoundUnlessTorn /\ [Next]_vars => SoundUnlessTorn'
  BY NextSound
<1> QED BY <1>1, <1>2, Invariance, PTL DEF Spec

-----------------------------------------------------------------------------
(* Listings.                                                               *)

(* A system call of a process is a step that leaves some directory.        *)
LEMMA ActorSteps ==
    ASSUME IInv, NEW p \in Procs,
           \/ EnterWrite(p) \/ Truncate(p) \/ Write(p) \/ WriteOrphan(p)
           \/ WriteFails(p) \/ EnterRead(p) \/ Remove(p) \/ ReadOne(p)
           \/ ReadDir(p) \/ ReadNext(p)
    PROVE  \E dir \in Directory, r \in Process : \E u : Step(p, dir, u, r)
<1>0. procs[p] \in Process /\ files \in Directory
  BY DEF IInv, TypeOK
<1>1. CASE \/ EnterWrite(p) \/ WriteOrphan(p) \/ EnterRead(p)
           \/ ReadOne(p) \/ ReadDir(p) \/ ReadNext(p)
  BY <1>0, <1>1, ReadersTouchNothing
<1>2. CASE Truncate(p)
  <2> DEFINE c == procs[p]  dir == [files EXCEPT ![c.arg.id] = Empty]
             r == [c EXCEPT !.pc = "write"]
  <2>1. c.arg.id \in Ids /\ Step(p, dir, {}, r)
    BY <1>2, ArgId DEF Truncate
  <2>2. dir \in Directory
    BY <1>0, <2>1 DEF Directory, NoProfile
  <2>3. r \in Process
    BY <1>0 DEF Process, Pcs
  <2> QED BY <2>1, <2>2, <2>3
<1>3. CASE Write(p)
  <2> DEFINE c == procs[p]
  <2>1. PICK content \in {c.arg, Mixed} :
          Step(p, [files EXCEPT ![c.arg.id] = content], {}, Idle("Ok", {}))
    BY <1>3 DEF Write
  <2>2. c.arg.id \in Ids /\ c.arg \in Profile
    BY <1>3, ArgId DEF Write
  <2>3. [files EXCEPT ![c.arg.id] = content] \in Directory
    BY <1>0, <2>2 DEF Directory, NoProfile
  <2>4. Idle("Ok", {}) \in Process
    BY IdleType DEF Results
  <2> QED BY <2>1, <2>3, <2>4
<1>4. CASE WriteFails(p)
  <2>1. Step(p, files, {}, Idle("Io", {}))
    BY <1>4 DEF WriteFails, Return
  <2>2. Idle("Io", {}) \in Process
    BY IdleType DEF Results
  <2> QED BY <1>0, <2>1, <2>2
<1>5. CASE Remove(p)
  <2> DEFINE id == procs[p].arg.id  dir == [files EXCEPT ![id] = NoFile]
  <2>1. PICK res \in Results : Step(p, dir, {id}, Idle(res, {}))
    BY <1>5 DEF Remove, Results
  <2>2. id \in Ids
    BY <1>5, ArgId DEF Remove
  <2>3. dir \in Directory
    BY <1>0, <2>2 DEF Directory, NoProfile
  <2>4. Idle(res, {}) \in Process
    BY IdleType
  <2> QED BY <2>1, <2>3, <2>4
<1> QED BY <1>1, <1>2, <1>3, <1>4, <1>5

(* A process in a call is ended by its own last system call only.          *)
LEMMA EndsByItself ==
    ASSUME IInv, [Next]_vars, NEW p \in Procs, Ends(p)
    PROVE  \/ EnterWrite(p) \/ Write(p) \/ WriteOrphan(p) \/ WriteFails(p)
           \/ EnterRead(p) \/ Remove(p) \/ ReadOne(p) \/ ReadNext(p)
<1>0. /\ procs[p].pc # "idle" /\ procs'[p].pc = "idle"
      /\ procs'[p].result # "killed"
      /\ procs[p] \in Process /\ files \in Directory
  BY DEF Ends, Busy, IInv, TypeOK
<1>1. ASSUME NEW q \in Procs \ {p},
             \/ EnterWrite(q) \/ Truncate(q) \/ Write(q) \/ WriteOrphan(q)
             \/ WriteFails(q) \/ EnterRead(q) \/ Remove(q) \/ ReadOne(q)
             \/ ReadDir(q) \/ ReadNext(q)
      PROVE  FALSE
  <2>0. PICK dir \in Directory, r \in Process : \E u : Step(q, dir, u, r)
    BY <1>1, ActorSteps
  <2>1. PICK u : Step(q, dir, u, r)
    BY <2>0
  <2>2. procs'[p] = Witness(procs[p], dir, u)
    BY <2>1, StepEffect DEF IInv
  <2> QED BY <1>0, <2>2, WitnessFields
<1>2. ASSUME NEW q \in Procs, NEW op, NEW profile, Argument(op, profile),
             Call(q, op, profile)
      PROVE  FALSE
  <2>1. /\ procs[q].pc = "idle"
        /\ \A s \in Procs \ {q} : SameCall(procs[s], procs'[s])
    BY <1>2, CallEffect
  <2> QED BY <1>0, <2>1 DEF SameCall
<1>3. ASSUME NEW q \in Procs, Kill(q) PROVE FALSE
  <2>1. procs' = [procs EXCEPT ![q] = Idle("killed", {})]
    BY <1>3 DEF Kill
  <2>2. Idle("killed", {}).result = "killed"
    BY DEF Idle
  <2>3. procs'[p] = procs[p] \/ procs'[p] = Idle("killed", {})
    BY <2>1 DEF IInv
  <2> QED BY <1>0, <2>2, <2>3
<1>4. ASSUME NEW id \in Ids, NEW profile \in Profile, Edit(id, profile)
      PROVE  FALSE
  <2>1. files' \in Directory
    BY <1>4, EditEffect
  <2>2. PICK w \in Process :
            SameCall(procs[p], w) /\ procs'[p] = Witness(w, files', {id})
    BY <1>4, EditEffect
  <2> QED BY <1>0, <2>1, <2>2, WitnessFields DEF SameCall
<1>5. CASE Truncate(p) \/ ReadDir(p)
  <2> DEFINE c == procs[p]  D == { i \in Ids : files[i] # NoFile }
             r1 == [c EXCEPT !.pc = "write"]
             r2 == [c EXCEPT !.pc = "list", !.todo = D]
             dir == [files EXCEPT ![c.arg.id] = Empty]
  <2>1. r1 \in Process /\ r1.pc = "write" /\ r2 \in Process /\ r2.pc = "list"
    BY <1>0 DEF Process, Pcs
  <2>2. CASE Truncate(p)
    <3>1. c.arg.id \in Ids /\ Step(p, dir, {}, r1)
      BY <2>2, ArgId DEF Truncate
    <3>2. dir \in Directory
      BY <1>0, <3>1 DEF Directory, NoProfile
    <3>3. procs'[p] = Witness(r1, dir, {})
      BY <2>1, <3>1, <3>2, StepEffect DEF IInv
    <3> HIDE DEF r1, r2, dir
    <3> QED BY <1>0, <2>1, <3>2, <3>3, WitnessFields
  <2>3. CASE ReadDir(p)
    <3>1. Step(p, files, {}, r2)
      BY <2>3 DEF ReadDir
    <3>2. procs'[p] = Witness(r2, files, {})
      BY <1>0, <2>1, <3>1, StepEffect DEF IInv
    <3> HIDE DEF r1, r2
    <3> QED BY <1>0, <2>1, <3>2, WitnessFields
  <2> QED BY <1>5, <2>2, <2>3
<1>6. CASE UNCHANGED vars
  BY <1>0, <1>6 DEF vars
<1> QED BY <1>1, <1>2, <1>3, <1>4, <1>5, <1>6, StepCases

(* A process that returns is idle and holds its result.                    *)
LEMMA Returned ==
    ASSUME IInv, NEW p \in Procs, NEW dir \in Directory, NEW u,
           NEW res \in Results, NEW f \in SUBSET Profile,
           Step(p, dir, u, Idle(res, f))
    PROVE  files' = dir /\ procs'[p].result = res /\ procs'[p].found = f
<1>1. /\ Idle(res, f) \in Process /\ Idle(res, f).pc = "idle"
      /\ Idle(res, f).result = res /\ Idle(res, f).found = f
  BY IdleType
<1>2. files' = dir /\ procs'[p] = Witness(Idle(res, f), dir, u)
  BY <1>1, StepEffect DEF IInv
<1> QED BY <1>1, <1>2, WitnessFields

(* A listing ends fairly.                                                  *)
LEMMA ListEnds ==
    ASSUME IInv, [Next]_vars, NEW p \in Procs, Ends(p), procs[p].op = "list"
    PROVE  FairList(p)
<1> DEFINE c == procs[p]
<1>0. c \in Process /\ files \in Directory /\ ArgsFit(c)
  BY DEF IInv, TypeOK, Local, Held, Ends, Busy
<1>1. ReadNext(p)
  <2>1. c.pc \in {"enter", "list"}
    BY <1>0 DEF ArgsFit, Process, Pcs, Ends, Busy
  <2> QED BY <2>1, EndsByItself
          DEF EnterWrite, Write, WriteOrphan, WriteFails, EnterRead, Remove,
              ReadOne, At
<1>2. Reading(c) /\ files \in c.seen /\ c.todo \subseteq Ids /\ c.found \in SUBSET Profile
  BY <1>0, <1>1, ReadNextCases DEF Process
<1>3. CASE c.todo = {} /\ Step(p, files, {}, Idle("Ok", c.found))
  <2>1. procs'[p].result = "Ok" /\ procs'[p].found = c.found
    BY <1>0, <1>2, <1>3, Returned DEF Results
  <2>2. \A x \in c.found : Valid(x) /\ \E dir \in c.seen : dir[x.id] = x
    BY <1>2 DEF Reading
  <2>3. ASSUME NEW i \in Ids,
               \A dir \in c.seen : dir[i] = files[i] /\ files[i] # NoFile
        PROVE  files[i] \in c.found
    BY <1>2, <1>3, <2>3 DEF Reading
  <2> QED BY <2>1, <2>2, <2>3 DEF FairList
<1>4. ASSUME NEW id \in c.todo, files[id] = NoFile, Return(p, "Io")
      PROVE  FairList(p)
  <2>1. procs'[p].result = "Io"
    BY <1>0, <1>4, Returned DEF Return, Results
  <2>2. \E dir \in c.seen : dir[id] # NoFile
    BY <1>2 DEF Reading
  <2> QED BY <1>2, <1>4, <2>1, <2>2 DEF FairList
<1>5. ASSUME NEW id \in c.todo, files[id] # NoFile, ~Sound(id, files[id]),
             Return(p, "Malformed")
      PROVE  FairList(p)
  <2>1. procs'[p].result = "Malformed"
    BY <1>0, <1>5, Returned DEF Return, Results
  <2> QED BY <1>2, <1>5, <2>1 DEF FairList
<1>6. ASSUME NEW id \in c.todo, Sound(id, files[id]),
             Step(p, files, {}, [c EXCEPT !.todo = @ \ {id},
                                          !.found = @ \cup {files[id]}])
      PROVE  FALSE
  <2> DEFINE r == [c EXCEPT !.todo = @ \ {id}, !.found = @ \cup {files[id]}]
  <2>1. id \in Ids /\ files[id] \in Profile
    BY <1>0, <1>2, <1>6 DEF Directory, Sound
  <2>2. r \in Process /\ r.pc = c.pc
    BY <1>0, <2>1 DEF Process
  <2>3. procs'[p] = Witness(r, files, {})
    BY <1>0, <1>6, <2>2, StepEffect DEF IInv
  <2>4. c.pc = "list"
    BY <1>1 DEF ReadNext
  <2> HIDE DEF r
  <2> QED BY <1>0, <2>2, <2>3, <2>4, WitnessFields DEF Ends
<1> QED BY <1>1, <1>3, <1>4, <1>5, <1>6, ReadNextCases

(* What list returns is a fair reading of a directory that changes under   *)
(* it, however many processes change it.                                   *)
THEOREM ListsAreFair == Spec => ListIsFair
<1>1. IInv /\ [Next]_vars =>
          [\A p \in Procs : Ends(p) /\ procs[p].op = "list" => FairList(p)]_vars
  BY ListEnds
<1> QED BY <1>1, Invariance, PTL DEF Spec, ListIsFair

-----------------------------------------------------------------------------
(* Calls that nothing disturbs.                                            *)

(* Where the directory is in a call that has been alone so far, and what   *)
(* its checks have established about the directory it found.               *)
Unread(c) == { i \in Ids : c.before[i] # NoFile }

Undisturbed(c, dir) ==
    c.pc # "idle" /\ c.alone =>
        /\ c.before \in Directory /\ c.pc # "orphan"
        /\ c.pc # "write" => dir = c.before
        /\ c.pc = "write" => dir = [c.before EXCEPT ![c.arg.id] = Empty]
        /\ c.pc \in {"truncate", "write"} =>
              (c.op = "create" <=> c.before[c.arg.id] = NoFile)
        /\ c.pc \in {"get", "delete"} => c.before[c.arg.id] # NoFile
        /\ c.pc = "list" =>
              /\ c.todo \subseteq Unread(c)
              /\ c.found = { c.before[i] : i \in Unread(c) \ c.todo }

(* A call is alone only while no other process is in one.                  *)
QInv ==
    /\ \A p, q \in Procs : Busy(p) /\ procs[p].alone /\ q # p => ~Busy(q)
    /\ \A p \in Procs : Undisturbed(procs[p], files)

(* It is enough to look at the process that takes the step: the others     *)
(* know of it, or are idle.                                                *)
LEMMA QuietFrame ==
    ASSUME IInv, QInv, NEW p \in Procs, Busy(p), NEW dir \in Directory, NEW u,
           NEW r \in Process, r.pc # "idle" => r.alone = procs[p].alone,
           Step(p, dir, u, r), Undisturbed(Witness(r, dir, u), dir)
    PROVE  QInv'
<1>1. /\ files' = dir /\ procs'[p] = Witness(r, dir, u)
      /\ \A q \in Procs \ {p} : procs'[q] = Witness(procs[q], dir, u)
  BY StepEffect DEF IInv
<1>2. ASSUME NEW q \in Procs \ {p}
      PROVE  /\ procs'[q].pc = "idle" <=> procs[q].pc = "idle"
             /\ procs'[q].alone = procs[q].alone
             /\ Busy(q) => ~procs[q].alone
             /\ procs[p].alone => ~Busy(q)
  <2>1. procs[q] \in Process
    BY DEF IInv
  <2> QED BY <1>1, <2>1, WitnessFields DEF QInv, Busy
<1>3. \A q \in Procs : Undisturbed(procs'[q], dir)
  BY <1>1, <1>2 DEF Undisturbed, Busy
<1>4. procs'[p].pc # "idle" => procs'[p].alone = procs[p].alone
  BY <1>1, WitnessFields
<1>5. ASSUME NEW a \in Procs, NEW q \in Procs, q # a,
             procs'[a].pc # "idle", procs'[a].alone
      PROVE  procs'[q].pc = "idle"
  <2>1. CASE a = p
    BY <1>2, <1>4, <1>5, <2>1 DEF Busy
  <2>2. CASE a # p
    BY <1>2, <1>5, <2>2 DEF Busy
  <2> QED BY <2>1, <2>2
<1> QED BY <1>1, <1>3, <1>5 DEF QInv, Busy

(* A call that returns is done with it.                                    *)
LEMMA QuietReturn ==
    ASSUME IInv, QInv, NEW p \in Procs, Busy(p), NEW dir \in Directory, NEW u,
           NEW res \in Results, NEW f \in SUBSET Profile,
           Step(p, dir, u, Idle(res, f))
    PROVE  QInv'
<1>1. Idle(res, f) \in Process /\ Idle(res, f).pc = "idle"
  BY IdleType
<1>2. Undisturbed(Witness(Idle(res, f), dir, u), dir)
  BY <1>1, WitnessFields DEF Undisturbed
<1> QED BY <1>1, <1>2, QuietFrame

(* A call that goes on to its next system call over an unchanged           *)
(* directory has checked what that call relies on.                         *)
LEMMA QuietGoto ==
    ASSUME IInv, QInv, NEW p \in Procs, procs[p].pc = "enter",
           NEW pc \in {"truncate", "get", "delete"},
           pc = "truncate" => (procs[p].op = "create" <=> ~IsFile(p)),
           pc # "truncate" => IsFile(p),
           Goto(p, pc)
    PROVE  QInv'
<1> DEFINE c == procs[p]  r == [c EXCEPT !.pc = pc]  w == Witness(r, files, {})
<1>1. c \in Process /\ files \in Directory /\ Undisturbed(c, files) /\ Busy(p)
  BY DEF IInv, TypeOK, QInv, Busy
<1>2. /\ r \in Process /\ r.pc = pc /\ r.op = c.op /\ r.arg = c.arg
      /\ r.before = c.before /\ r.alone = c.alone
  BY <1>1 DEF Process, Pcs
<1>3. Step(p, files, {}, r)
  BY DEF Goto
<1> HIDE DEF r
<1>4. /\ w.pc = pc /\ w.op = c.op /\ w.arg = c.arg
      /\ w.before = c.before /\ w.alone = c.alone
  BY <1>1, <1>2, WitnessFields
<1> HIDE DEF w
<1>5. Undisturbed(w, files)
  BY <1>1, <1>4 DEF Undisturbed, IsFile
<1> QED BY <1>1, <1>2, <1>3, <1>5, QuietFrame DEF w

(* An undisturbed call that looks at the directory sees the store it       *)
(* started with.                                                           *)
LEMMA QuietEnter ==
    ASSUME IInv, QInv, NEW p \in Procs, EnterWrite(p) \/ EnterRead(p)
    PROVE  QInv'
<1>1. procs[p].pc = "enter" /\ Busy(p) /\ files \in Directory
  BY DEF EnterWrite, EnterRead, At, Busy, IInv, TypeOK
<1>2. CASE \E res \in Results : Return(p, res)
  BY <1>1, <1>2, QuietReturn DEF Return
<1>3. CASE EnterWrite(p) /\ ~\E res \in Results : Return(p, res)
  <2>1. procs[p].op \in {"create", "update"} /\ WriteAllowed(p) /\ Goto(p, "truncate")
    BY <1>3 DEF EnterWrite, At, Results
  <2> QED BY <1>1, <2>1, QuietGoto DEF WriteAllowed
<1>4. CASE EnterRead(p) /\ ~\E res \in Results : Return(p, res)
  <2>1. procs[p].op \in {"get", "delete"} /\ IsFile(p) /\ Goto(p, procs[p].op)
    BY <1>4 DEF EnterRead, At, Results
  <2> QED BY <1>1, <2>1, QuietGoto
<1> QED BY <1>2, <1>3, <1>4

(* The truncation of an undisturbed write touches its own file only.       *)
LEMMA QuietTruncate ==
    ASSUME IInv, QInv, NEW p \in Procs, Truncate(p)
    PROVE  QInv'
<1> DEFINE c == procs[p]  dir == [files EXCEPT ![c.arg.id] = Empty]
           r == [c EXCEPT !.pc = "write"]  w == Witness(r, dir, {})
<1>1. c.pc = "truncate" /\ Busy(p) /\ Step(p, dir, {}, r)
  BY DEF Truncate, Busy
<1>2. c \in Process /\ files \in Directory /\ Undisturbed(c, files) /\ c.arg.id \in Ids
  BY <1>1, ArgId DEF IInv, TypeOK, QInv
<1>3. dir \in Directory
  BY <1>2 DEF Directory, NoProfile
<1>4. /\ r \in Process /\ r.pc = "write" /\ r.op = c.op /\ r.arg = c.arg
      /\ r.before = c.before /\ r.alone = c.alone
  BY <1>2 DEF Process, Pcs
<1> HIDE DEF r
<1>5. /\ w.pc = "write" /\ w.op = c.op /\ w.arg = c.arg
      /\ w.before = c.before /\ w.alone = c.alone
  BY <1>3, <1>4, WitnessFields
<1> HIDE DEF w
<1>6. Undisturbed(w, dir)
  BY <1>1, <1>2, <1>5 DEF Undisturbed
<1> QED BY <1>1, <1>3, <1>4, <1>6, QuietFrame DEF w

(* An undisturbed list finds the ids of the store.                         *)
LEMMA QuietReadDir ==
    ASSUME IInv, QInv, NEW p \in Procs, ReadDir(p)
    PROVE  QInv'
<1> DEFINE c == procs[p]  D == { i \in Ids : files[i] # NoFile }
           r == [c EXCEPT !.pc = "list", !.todo = D]  w == Witness(r, files, {})
<1>1. c.pc = "enter" /\ Busy(p) /\ Step(p, files, {}, r)
  BY DEF ReadDir, At, Busy
<1>2. /\ c \in Process /\ files \in Directory /\ Undisturbed(c, files)
      /\ c.found = {}
  BY <1>1 DEF IInv, TypeOK, QInv, Local, Held, ArgsFit
<1>3. /\ r \in Process /\ r.pc = "list" /\ r.todo = D /\ r.found = {}
      /\ r.before = c.before /\ r.alone = c.alone
  BY <1>2 DEF Process, Pcs
<1> HIDE DEF r
<1>4. /\ w.pc = "list" /\ w.todo = D /\ w.found = {}
      /\ w.before = c.before /\ w.alone = c.alone
  BY <1>2, <1>3, WitnessFields
<1> HIDE DEF w
<1>5. Undisturbed(w, files)
  BY <1>1, <1>2, <1>4 DEF Undisturbed, Unread
<1> QED BY <1>1, <1>2, <1>3, <1>5, QuietFrame DEF w

(* It then reads the profile of each of them.                              *)
LEMMA QuietReadNext ==
    ASSUME IInv, QInv, NEW p \in Procs, ReadNext(p)
    PROVE  QInv'
<1> DEFINE c == procs[p]
<1>1. c.pc = "list" /\ Busy(p)
  BY ReadNextCases DEF Busy
<1>2. c \in Process /\ files \in Directory /\ Undisturbed(c, files)
  BY DEF IInv, TypeOK, QInv
<1>3. CASE Step(p, files, {}, Idle("Ok", c.found))
  <2>1. c.found \in SUBSET Profile
    BY <1>2 DEF Process
  <2> QED BY <1>1, <1>2, <1>3, <2>1, QuietReturn DEF Results
<1>4. CASE Return(p, "Io") \/ Return(p, "Malformed")
  BY <1>1, <1>2, <1>4, QuietReturn DEF Return, Results
<1>5. ASSUME NEW id \in c.todo, Sound(id, files[id]),
             Step(p, files, {}, [c EXCEPT !.todo = @ \ {id},
                                          !.found = @ \cup {files[id]}])
      PROVE  QInv'
  <2> DEFINE r == [c EXCEPT !.todo = @ \ {id}, !.found = @ \cup {files[id]}]
             w == Witness(r, files, {})
  <2>1. id \in Ids /\ files[id] \in Profile
    BY <1>2, <1>5 DEF Process, Directory, Sound
  <2>2. /\ r \in Process /\ r.pc = "list" /\ r.alone = c.alone
        /\ r.before = c.before /\ r.todo = c.todo \ {id}
        /\ r.found = c.found \cup {files[id]}
    BY <1>1, <1>2, <2>1 DEF Process
  <2>3. Step(p, files, {}, r)
    BY <1>5
  <2> HIDE DEF r
  <2>4. /\ w.pc = "list" /\ w.alone = c.alone /\ w.before = c.before
        /\ w.todo = c.todo \ {id} /\ w.found = c.found \cup {files[id]}
    BY <1>2, <2>2, WitnessFields
  <2> HIDE DEF w
  <2>5. Undisturbed(w, files)
    <3>1. SUFFICES ASSUME c.alone PROVE Undisturbed(w, files)
      BY <2>4 DEF Undisturbed
    <3>2. /\ c.before \in Directory /\ files = c.before
          /\ c.todo \subseteq Unread(c)
          /\ c.found = { c.before[i] : i \in Unread(c) \ c.todo }
      BY <1>1, <1>2, <3>1 DEF Undisturbed
    <3>3. w.todo \subseteq Unread(w) /\ Unread(w) = Unread(c)
      BY <2>4, <3>2 DEF Unread
    <3>4. w.found = { w.before[i] : i \in Unread(w) \ w.todo }
      BY <2>4, <3>2, <3>3
    <3> QED BY <2>4, <3>2, <3>3, <3>4 DEF Undisturbed
  <2> QED BY <1>1, <1>2, <2>2, <2>3, <2>5, QuietFrame DEF w
<1> QED BY <1>3, <1>4, <1>5, ReadNextCases

(* Every step keeps the account of undisturbed calls.                      *)
LEMMA NextQInv ==
    ASSUME IInv, QInv, [Next]_vars
    PROVE  QInv'
<1>0. files \in Directory /\ procs \in [Procs -> Process]
  BY DEF IInv, TypeOK
<1>1. ASSUME NEW p \in Procs, Write(p) PROVE QInv'
  <2> DEFINE c == procs[p]
  <2>1. PICK content \in {c.arg, Mixed} :
          Step(p, [files EXCEPT ![c.arg.id] = content], {}, Idle("Ok", {}))
    BY <1>1 DEF Write
  <2>2. c.arg.id \in Ids /\ c.arg \in Profile /\ Busy(p)
    BY <1>1, ArgId DEF Write, Busy
  <2>3. [files EXCEPT ![c.arg.id] = content] \in Directory
    BY <1>0, <2>2 DEF Directory, NoProfile
  <2> QED BY <2>1, <2>2, <2>3, QuietReturn DEF Results
<1>2. ASSUME NEW p \in Procs, WriteOrphan(p) \/ WriteFails(p) PROVE QInv'
  <2>1. Busy(p) /\ \E res \in Results : Return(p, res)
    BY <1>2 DEF WriteOrphan, WriteFails, Busy, Results
  <2> QED BY <1>0, <2>1, QuietReturn DEF Return
<1>3. ASSUME NEW p \in Procs, Remove(p) PROVE QInv'
  <2> DEFINE id == procs[p].arg.id  dir == [files EXCEPT ![id] = NoFile]
  <2>1. PICK res \in Results : Step(p, dir, {id}, Idle(res, {}))
    BY <1>3 DEF Remove, Results
  <2>2. id \in Ids /\ Busy(p)
    BY <1>3, ArgId DEF Remove, Busy
  <2>3. dir \in Directory
    BY <1>0, <2>2 DEF Directory, NoProfile
  <2> QED BY <2>1, <2>2, <2>3, QuietReturn
<1>4. ASSUME NEW p \in Procs, ReadOne(p) PROVE QInv'
  <2> DEFINE id == procs[p].arg.id
  <2>1. id \in Ids /\ Busy(p)
    BY <1>4, ArgId DEF ReadOne, Busy
  <2>2. \/ \E res \in Results : Return(p, res)
        \/ Sound(id, files[id]) /\ Step(p, files, {}, Idle("Ok", {files[id]}))
    BY <1>4 DEF ReadOne, Results
  <2>3. Sound(id, files[id]) => {files[id]} \in SUBSET Profile
    BY <1>0, <2>1 DEF Directory, Sound
  <2> QED BY <1>0, <2>1, <2>2, <2>3, QuietReturn DEF Return, Results
<1>5. ASSUME NEW p \in Procs, Kill(p) PROVE QInv'
  <2>1. procs' = [procs EXCEPT ![p] = Idle("killed", {})] /\ files' = files
    BY <1>5 DEF Kill
  <2>2. Idle("killed", {}).pc = "idle"
    BY DEF Idle
  <2>3. \A q \in Procs : procs'[q].pc = "idle" \/ procs'[q] = procs[q]
    BY <1>0, <2>1, <2>2
  <2> QED BY <2>1, <2>3 DEF QInv, Undisturbed, Busy, Unread
<1>6. ASSUME NEW p \in Procs, NEW op, NEW profile, Argument(op, profile),
             Call(p, op, profile)
      PROVE  QInv'
  <2>1. /\ procs[p].pc = "idle" /\ files' = files
        /\ procs'[p].pc = "enter" /\ procs'[p].before = files
        /\ procs'[p].alone => \A r \in Procs : ~Busy(r)
        /\ \A q \in Procs \ {p} :
              SameCall(procs[q], procs'[q]) /\ (procs'[q].alone => ~Busy(q))
    BY <1>6, CallEffect
  <2>2. Undisturbed(procs'[p], files)
    BY <1>0, <2>1 DEF Undisturbed
  <2>3. \A q \in Procs \ {p} : /\ procs'[q].pc = procs[q].pc
                               /\ procs'[q].alone => procs[q].pc = "idle"
    BY <2>1 DEF SameCall, Busy
  <2>4. \A q \in Procs : Undisturbed(procs'[q], files')
    BY <2>1, <2>2, <2>3 DEF Undisturbed
  <2>5. ASSUME NEW a \in Procs, NEW q \in Procs, q # a,
               procs'[a].pc # "idle", procs'[a].alone
        PROVE  procs'[q].pc = "idle"
    <3>1. a = p
      BY <2>3, <2>5
    <3> QED BY <2>1, <2>3, <2>5, <3>1 DEF Busy
  <2> QED BY <2>4, <2>5 DEF QInv, Busy
<1>7. ASSUME NEW id \in Ids, NEW profile \in Profile, Edit(id, profile)
      PROVE  QInv'
  <2>1. files' \in Directory
    BY <1>7, EditEffect
  <2>2. ASSUME NEW q \in Procs
        PROVE  procs'[q].pc = "idle" \/ ~procs'[q].alone
    <3>1. PICK w \in Process :
            /\ SameCall(procs[q], w) /\ (w.alone => ~Busy(q))
            /\ procs'[q] = Witness(w, files', {id})
      BY <1>7, EditEffect
    <3> QED BY <2>1, <3>1, WitnessFields DEF SameCall, Busy
  <2> QED BY <2>2 DEF QInv, Undisturbed, Busy
<1>8. CASE UNCHANGED vars
  BY <1>8 DEF vars, QInv, Undisturbed, Busy, Unread
<1> QED BY <1>1, <1>2, <1>3, <1>4, <1>5, <1>6, <1>7, <1>8, StepCases,
           QuietEnter, QuietTruncate, QuietReadDir, QuietReadNext

(* What an undisturbed call returns, and leaves, is what the in-memory     *)
(* store would.                                                            *)
LEMMA QuietEnds ==
    ASSUME IInv, QInv, [Next]_vars, NEW p \in Procs, Ends(p), procs[p].alone,
           faults' = faults,
           \A i \in Ids : procs[p].before[i] # NoFile
                             => Sound(i, procs[p].before[i])
    PROVE  LikeMemory(p)
<1> DEFINE c == procs[p]  id == c.arg.id  map == c.before
<1>0. /\ c \in Process /\ files \in Directory /\ Busy(p) /\ ArgsFit(c)
      /\ Undisturbed(c, files)
  BY DEF Ends, Busy, IInv, TypeOK, QInv, Local, Held
<1>1. map \in Directory /\ c.pc # "orphan" /\ (c.pc # "write" => files = map)
  BY <1>0 DEF Undisturbed, Busy
<1>2. ASSUME NEW res \in Results, Return(p, res)
      PROVE  files' = files /\ procs'[p].result = res /\ procs'[p].found = {}
  BY <1>0, <1>2, Returned DEF Return
<1>3. CASE EnterWrite(p)
  <2>1. c.pc = "enter" /\ c.op \in {"create", "update"}
    BY <1>3 DEF EnterWrite, At
  <2>2. c.arg \in Profile /\ id \in Ids /\ files = map
    BY <1>0, <1>1, <2>1 DEF ArgsFit, Profile
  <2>3. ~Goto(p, "truncate")
    <3> DEFINE r == [c EXCEPT !.pc = "truncate"]
    <3>1. SUFFICES ASSUME Step(p, files, {}, r) PROVE FALSE
      BY DEF Goto
    <3>2. r \in Process /\ r.pc = "truncate"
      BY <1>0 DEF Process, Pcs
    <3> HIDE DEF r
    <3>3. procs'[p] = Witness(r, files, {})
      BY <1>0, <3>1, <3>2, StepEffect DEF IInv
    <3> QED BY <1>0, <3>2, <3>3, WitnessFields DEF Ends
  <2>4. \/ /\ ~WriteAllowed(p)
           /\ Return(p, IF c.op = "create" THEN "AlreadyExists" ELSE "NotFound")
        \/ ~Valid(c.arg) /\ Return(p, "Invalid")
    BY <1>3, <2>3 DEF EnterWrite
  <2>5. files' = map /\ procs'[p].result # "Ok"
    BY <1>2, <2>2, <2>4 DEF Results
  <2>6. ~Valid(c.arg) \/ (c.op = "create" <=> map[id] # NoFile)
    BY <2>1, <2>2, <2>4 DEF WriteAllowed, IsFile
  <2> QED BY <2>1, <2>5, <2>6 DEF LikeMemory, MemCreate, MemUpdate
<1>4. CASE Write(p)
  <2>1. c.pc = "write" /\ c.op \in {"create", "update"} /\ Valid(c.arg)
    BY <1>0, <1>4 DEF Write, ArgsFit
  <2>2. c.arg \in Profile /\ id \in Ids
    BY <1>0, <2>1 DEF ArgsFit, Profile
  <2>3. files = [map EXCEPT ![id] = Empty] /\ (c.op = "create" <=> map[id] = NoFile)
    BY <1>0, <2>1 DEF Undisturbed, Busy
  <2>4. files[id] = Empty
    BY <1>1, <2>2, <2>3 DEF Directory
  <2>5. Step(p, [files EXCEPT ![id] = c.arg], {}, Idle("Ok", {}))
    BY <1>4, <2>4 DEF Write
  <2>6. [files EXCEPT ![id] = c.arg] = [map EXCEPT ![id] = c.arg]
    BY <1>1, <2>2, <2>3 DEF Directory
  <2>7. [map EXCEPT ![id] = c.arg] \in Directory
    BY <1>1, <2>2 DEF Directory
  <2>8. files' = [map EXCEPT ![id] = c.arg] /\ procs'[p].result = "Ok"
    BY <2>5, <2>6, <2>7, Returned DEF Results
  <2>9. c.op = "create" => files' # map
    <3>1. c.arg # NoFile
      BY <2>2, StoreAssumption DEF NoProfile
    <3> QED BY <1>1, <2>2, <2>3, <2>8, <3>1 DEF Directory
  <2> QED BY <2>1, <2>3, <2>8, <2>9 DEF LikeMemory, MemCreate, MemUpdate
<1>5. CASE WriteOrphan(p) \/ WriteFails(p)
  <2>1. faults \in Nat
    BY StoreAssumption DEF IInv, TypeOK
  <2> QED BY <1>1, <1>5, <2>1 DEF WriteOrphan, WriteFails
<1>6. CASE EnterRead(p)
  <2>1. c.pc = "enter" /\ c.op \in {"get", "delete"}
    BY <1>6 DEF EnterRead, At
  <2>2. id \in Ids /\ files = map
    BY <1>0, <1>1, <2>1 DEF ArgsFit
  <2>3. ~Goto(p, c.op)
    <3> DEFINE r == [c EXCEPT !.pc = c.op]
    <3>1. SUFFICES ASSUME Step(p, files, {}, r) PROVE FALSE
      BY DEF Goto
    <3>2. r \in Process /\ r.pc = c.op
      BY <1>0, <2>1 DEF Process, Pcs
    <3> HIDE DEF r
    <3>3. procs'[p] = Witness(r, files, {})
      BY <1>0, <3>1, <3>2, StepEffect DEF IInv
    <3> QED BY <1>0, <2>1, <3>2, <3>3, WitnessFields DEF Ends
  <2>4. files[id] = NoFile /\ Return(p, "NotFound")
    BY <1>6, <2>3 DEF EnterRead, IsFile
  <2>5. files' = map /\ procs'[p].result # "Ok" /\ procs'[p].found = {}
    BY <1>2, <2>2, <2>4 DEF Results
  <2>6. [map EXCEPT ![id] = NoFile] = map
    BY <1>1, <2>2, <2>4 DEF Directory
  <2> QED BY <2>1, <2>2, <2>4, <2>5, <2>6 DEF LikeMemory, MemGet, MemDelete
<1>7. CASE Remove(p)
  <2>1. c.pc = "delete" /\ c.op = "delete"
    BY <1>0, <1>7 DEF Remove, ArgsFit
  <2>2. id \in Ids /\ files = map /\ map[id] # NoFile
    BY <1>0, <1>1, <2>1 DEF ArgsFit, Undisturbed, Busy
  <2>3. Step(p, [files EXCEPT ![id] = NoFile], {id}, Idle("Ok", {}))
    BY <1>7, <2>2 DEF Remove, IsFile
  <2>4. [files EXCEPT ![id] = NoFile] \in Directory
    BY <1>0, <2>2 DEF Directory, NoProfile
  <2>5. files' = [map EXCEPT ![id] = NoFile] /\ procs'[p].result = "Ok"
    BY <2>2, <2>3, <2>4, Returned DEF Results
  <2>6. files' # map
    BY <1>1, <2>2, <2>5 DEF Directory
  <2> QED BY <2>1, <2>5, <2>6 DEF LikeMemory, MemDelete
<1>8. CASE ReadOne(p)
  <2>1. c.pc = "get" /\ c.op = "get"
    BY <1>0, <1>8 DEF ReadOne, ArgsFit
  <2>2. id \in Ids /\ files = map /\ map[id] # NoFile
    BY <1>0, <1>1, <2>1 DEF ArgsFit, Undisturbed, Busy
  <2>3. Sound(id, files[id])
    BY <2>2
  <2>4. Step(p, files, {}, Idle("Ok", {files[id]}))
    BY <1>8, <2>2, <2>3 DEF ReadOne, IsFile
  <2>5. {files[id]} \in SUBSET Profile
    BY <1>0, <2>2, <2>3 DEF Directory, Sound
  <2>6. procs'[p].found = {map[id]}
    BY <1>0, <2>2, <2>4, <2>5, Returned DEF Results
  <2> QED BY <2>1, <2>2, <2>6 DEF LikeMemory, MemGet
<1>9. CASE ReadNext(p)
  <2>1. c.pc = "list" /\ c.op = "list"
    BY <1>9, ReadNextCases
  <2>2. /\ files = map /\ c.todo \subseteq Unread(c)
        /\ c.found = { map[i] : i \in Unread(c) \ c.todo }
    BY <1>0, <1>1, <2>1 DEF Undisturbed, Busy
  <2>3. \A i \in c.todo : files[i] # NoFile /\ Sound(i, files[i])
    BY <2>2 DEF Unread
  <2>4. ASSUME NEW i \in c.todo,
               Step(p, files, {}, [c EXCEPT !.todo = @ \ {i},
                                            !.found = @ \cup {files[i]}])
        PROVE  FALSE
    <3> DEFINE r == [c EXCEPT !.todo = @ \ {i}, !.found = @ \cup {files[i]}]
    <3>1. i \in Ids /\ files[i] \in Profile
      BY <1>0, <2>3 DEF Process, Directory, Sound
    <3>2. r \in Process /\ r.pc = "list"
      BY <1>0, <2>1, <3>1 DEF Process
    <3>3. Step(p, files, {}, r)
      BY <2>4
    <3> HIDE DEF r
    <3>4. procs'[p] = Witness(r, files, {})
      BY <1>0, <3>2, <3>3, StepEffect DEF IInv
    <3> QED BY <1>0, <3>2, <3>4, WitnessFields DEF Ends
  <2>5. c.todo = {} /\ Step(p, files, {}, Idle("Ok", c.found))
    BY <1>9, <2>3, <2>4, ReadNextCases
  <2>6. c.found \in SUBSET Profile
    BY <1>0 DEF Process
  <2>7. procs'[p].result = "Ok" /\ procs'[p].found = c.found
    BY <1>0, <2>5, <2>6, Returned DEF Results
  <2>8. c.found = MemList(map)
    BY <2>2, <2>5 DEF MemList, Unread
  <2> QED BY <2>1, <2>7, <2>8 DEF LikeMemory
<1> QED BY <1>3, <1>4, <1>5, <1>6, <1>7, <1>8, <1>9, EndsByItself

(* A call that no other process, fault or edit overlaps, over sound files, *)
(* returns and leaves what the in-memory store would.                      *)
THEOREM QuietIsMemory == Spec => QuietMatchesMemory
<1>1. Init => QInv
  <2>1. Idle("none", {}).pc = "idle"
    BY DEF Idle
  <2> QED BY <2>1 DEF Init, QInv, Busy, Undisturbed
<1>2. IInv /\ QInv /\ [Next]_vars => QInv'
  BY NextQInv
<1>3. IInv /\ QInv /\ [Next]_vars =>
        [ \A p \in Procs :
            /\ Ends(p) /\ procs[p].alone /\ faults' = faults
            /\ \A i \in Ids : procs[p].before[i] # NoFile
                                 => Sound(i, procs[p].before[i])
            => LikeMemory(p) ]_vars
  BY QuietEnds
<1> QED BY <1>1, <1>2, <1>3, Invariance, PTL DEF Spec, QuietMatchesMemory
=============================================================================
