-------------------------- MODULE DirectTaskProofs --------------------------
(***************************************************************************)
(* Every step of a transfer task of DirectDownloads keeps the inductive    *)
(* invariant IInv.                                                         *)
(***************************************************************************)
EXTENDS DirectDownloads, DownloadsTableProofs, SequenceTheorems

(***************************************************************************)
(* Bytes.                                                                  *)
(***************************************************************************)

(* Writing one chunk into a file gives a file.                              *)
LEMMA WriteAtType ==
  ASSUME NEW c \in Seq(Chunk), NEW pos \in Nat, NEW x \in Chunk
  PROVE  WriteAt(c, pos, x) \in Seq(Chunk)
<1> DEFINE n == IF pos < Len(c) THEN Len(c) ELSE pos + 1
<1>1. Hole \in Chunk
  BY DEF Chunk
<1>2. n \in Nat
  BY LenProperties
<1>3. \A i \in 1..Len(c) : c[i] \in Chunk
  BY ElementOfSeq
<1>4. WriteAt(c, pos, x) \in [1..n -> Chunk]
  BY <1>1, <1>2, <1>3, LenProperties DEF WriteAt
<1> QED
  BY <1>2, <1>4, SeqDef

(* What a server sends is a chunk.                                          *)
LEMMA SentType ==
  ASSUME NEW u \in Urls, NEW i \in Nat
  PROVE  Sent(u, i) \in Chunk
  BY DEF Sent, Chunk

(* A digest names a source or is the corrupt one.                           *)
LEMMA DigestType == \A c : Digest(c) \in Digests
  BY DEF Digest, Digests

(***************************************************************************)
(* The frame of a transfer task's step: it moves its own program counter   *)
(* and no other, and its own row at most to `error` or `complete`.         *)
(***************************************************************************)
FilesOK == files \in [Paths -> Seq(Chunk) \cup {Null}]

TaskMove(id) ==
  /\ task' \in [Ids -> Task]
  /\ \A o \in Ids \ {id} : task'[o].pc = task[o].pc
  /\ FilesOK'
  /\ \A o \in Ids : Linked(o)'
  /\ UNCHANGED others

RowMove(id) ==
  \/ UNCHANGED rows
  \/ \E msg \in AnyError : rows' = mark_error(rows, id, msg)
  \/ \E p \in Paths, d \in Digests \cup {Null} : rows' = finalize_direct(rows, id, p, d)

\* A row the task leaves `downloading` is one it goes on with.
Settles(id) == ~DbBlips /\ Attended(id) => Attended(id)'

Kept(id) == TaskMove(id) /\ RowMove(id) /\ TaskRow(id)' /\ Settles(id)

(* What a RowMove does to the table.                                        *)
LEMMA RowMoveFacts ==
  ASSUME rows \in Table, NEW id \in Ids, RowMove(id)
  PROVE  /\ rows' \in Table
         /\ \A o \in Ids \ {id} : rows'[o] = rows[o]
         /\ rows'[id].name = rows[id].name /\ rows'[id].url = rows[id].url
         /\ rows'[id] # rows[id] => /\ rows[id].status \in Active
                                    /\ rows'[id].status \in {"error", "complete"}
<1>1. rows' \in Table
  BY TableOps DEF RowMove, AnyError
<1>2. CASE UNCHANGED rows
  BY <1>1, <1>2
<1>3. ASSUME NEW msg \in AnyError, rows' = mark_error(rows, id, msg)
      PROVE  /\ \A o \in Ids \ {id} : rows'[o] = rows[o]
             /\ rows'[id].name = rows[id].name /\ rows'[id].url = rows[id].url
             /\ rows'[id] # rows[id] => /\ rows[id].status \in Active
                                        /\ rows'[id].status \in {"error", "complete"}
  BY <1>3 DEF mark_error, Table, Row, Status, Active
<1>4. ASSUME NEW p \in Paths, NEW d \in Digests \cup {Null},
             rows' = finalize_direct(rows, id, p, d)
      PROVE  /\ \A o \in Ids \ {id} : rows'[o] = rows[o]
             /\ rows'[id].name = rows[id].name /\ rows'[id].url = rows[id].url
             /\ rows'[id] # rows[id] => /\ rows[id].status \in Active
                                        /\ rows'[id].status \in {"error", "complete"}
  BY <1>4 DEF finalize_direct, Table, Row, Active
<1> QED
  BY <1>1, <1>2, <1>3, <1>4 DEF RowMove

(* A step within the frame keeps the invariant when it leaves its own task  *)
(* and row in agreement.                                                    *)
LEMMA TaskFrame ==
  ASSUME IInv, NEW id \in Ids, Running(id), TaskMove(id), RowMove(id), TaskRow(id)'
  PROVE  IInv'
<1> USE DEF IInv
<1>1. rows \in Table
  BY DEF TypeOK
<1>2. /\ rows' \in Table
      /\ \A o \in Ids \ {id} : rows'[o] = rows[o]
      /\ rows'[id].name = rows[id].name /\ rows'[id].url = rows[id].url
      /\ rows'[id] # rows[id] => /\ rows[id].status \in Active
                                 /\ rows'[id].status \in {"error", "complete"}
  BY <1>1, RowMoveFacts
<1>3. TypeOK'
  BY <1>2 DEF TypeOK, TaskMove, FilesOK, others
<1>4. ASSUME NEW o \in Ids PROVE Filled(o)'
  <2>1. CASE o # id
    BY <1>2, <2>1 DEF Filled
  <2>2. CASE o = id
    BY <1>2, <2>2 DEF Filled, TaskRow, Active
  <2> QED
    BY <2>1, <2>2
<1>5. ASSUME NEW o \in Ids PROVE TaskRow(o)'
  <2>1. CASE o # id
    BY <1>2, <2>1 DEF TaskRow, TaskMove, Running
  <2> QED
    BY <2>1
<1>6. PollShape'
  <2>1. poll' = poll /\ poll.pc \notin Starting
    BY DEF TaskMove, others, PollShape
  <2>2. id \notin poll.batch
    BY DEF PollShape, TaskRow
  <2>3. id \in poll.todo => rows[id].status = "cancelled"
    BY DEF PollShape, TaskRow
  <2>4. id \in poll.todo => rows'[id] = rows[id]
    BY <1>2, <2>3 DEF Active
  <2>5. poll.batch \subseteq Ids /\ poll.todo \subseteq Ids
    BY DEF TypeOK, Poll
  <2> QED
    BY <1>2, <2>1, <2>2, <2>4, <2>5 DEF PollShape
<1>7. IndexesHold(rows')
  BY <1>2 DEF IndexesHold, Active
<1>8. \A o \in Ids : Linked(o)'
  BY DEF TaskMove
<1> QED
  BY <1>3, <1>4, <1>5, <1>6, <1>7, <1>8

(***************************************************************************)
(* The building blocks of the task actions stay within the frame.          *)
(***************************************************************************)

(* A running task's row names its paths and its source.                     *)
LEMMA RunningFacts ==
  ASSUME IInv, NEW id \in Ids, Running(id)
  PROVE  /\ PartOf(id) \in Paths /\ DstOf(id) \in Paths /\ PartOf(id) # DstOf(id)
         /\ Url(id) \in Urls /\ SizeOf[Url(id)] \in Nat
         /\ task[id] \in Task /\ rows[id] \in Row
<1>1. rows[id].name \in Names /\ rows[id].url \in Urls
  BY DEF IInv, TaskRow, Filled
<1> QED
  BY <1>1, DirectAssumption DEF PartOf, DstOf, Url, Part, Zim, Paths, IInv, TypeOK, Table

(* The initial task record is a task record.                                *)
LEMMA NoTaskType == NoTask \in Task
  BY DEF NoTask, Task, TaskPc

(* Moving one program counter.                                              *)
LEMMA GotoMove ==
  ASSUME IInv, NEW id \in Ids, NEW pc \in TaskPc, Goto(id, pc), UNCHANGED files,
         UNCHANGED others
  PROVE  task[id].pc # "none" /\ pc # "none" => TaskMove(id) /\ task'[id].pc = pc
<1>1. task[id] \in Task /\ task \in [Ids -> Task]
  BY DEF IInv, TypeOK
<1>2. [task[id] EXCEPT !.pc = pc] \in Task
  BY <1>1 DEF Task
<1>3. task' = [task EXCEPT ![id] = [task[id] EXCEPT !.pc = pc]]
  BY <1>1 DEF Goto
<1>4. SUFFICES ASSUME task[id].pc # "none", pc # "none"
               PROVE  TaskMove(id) /\ task'[id].pc = pc
  OBVIOUS
<1>5. \A o \in Ids : task'[o].at = task[o].at /\ (o # id => task'[o].pc = task[o].pc)
  BY <1>1, <1>2, <1>3 DEF Task
<1>6. task'[id].pc = pc
  BY <1>1, <1>3 DEF Task
<1>7. \A o \in Ids : Linked(o)'
  BY <1>4, <1>5, <1>6 DEF Linked, Running, IInv
<1> QED
  BY <1>1, <1>2, <1>3, <1>5, <1>6, <1>7 DEF TaskMove, FilesOK, IInv, TypeOK

(* Replacing one task record.                                               *)
LEMMA SetMove ==
  ASSUME IInv, NEW id \in Ids, NEW k \in Task, task' = [task EXCEPT ![id] = k],
         FilesOK', UNCHANGED others,
         k.at # Null => k.pc # "none" /\ files'[k.at] # Null,
         \A p \in Paths : files[p] # Null => files'[p] # Null
  PROVE  TaskMove(id) /\ task'[id] = k
<1>1. task'[id] = k /\ \A o \in Ids \ {id} : task'[o] = task[o]
  BY DEF IInv, TypeOK
<1>2. \A o \in Ids : task[o].at # Null => task[o].at \in Paths
  BY DEF IInv, TypeOK, Task
<1>3. \A o \in Ids : Linked(o)'
  BY <1>1, <1>2 DEF Linked, Running, IInv
<1> QED
  BY <1>1, <1>3 DEF TaskMove, IInv, TypeOK

(* Ending a task.                                                           *)
LEMMA EndMove ==
  ASSUME IInv, NEW id \in Ids, EndTask(id), UNCHANGED others
  PROVE  TaskMove(id) /\ ~Running(id)'
<1>1. task'[id] = NoTask /\ (\A o \in Ids \ {id} : task'[o] = task[o]) /\ files' = files
  BY DEF EndTask, Ended, IInv, TypeOK
<1>2. \A o \in Ids : Linked(o)'
  BY <1>1 DEF Linked, Running, NoTask, IInv
<1> QED
  BY <1>1, <1>2, NoTaskType
     DEF EndTask, Ended, TaskMove, FilesOK, IInv, TypeOK, Running, NoTask

(* Detaching open files changes no program counter.                         *)
LEMMA DetachedFacts ==
  ASSUME NEW tk \in [Ids -> Task], NEW p \in Paths
  PROVE  /\ Detached(tk, p) \in [Ids -> Task]
         /\ \A o \in Ids : /\ Detached(tk, p)[o].pc = tk[o].pc
                            /\ Detached(tk, p)[o].at = IF tk[o].at = p THEN Null ELSE tk[o].at
<1>1. ASSUME NEW k \in Task PROVE [k EXCEPT !.at = Null] \in Task
  BY DEF Task
<1>2. ASSUME NEW k \in Task
      PROVE  [k EXCEPT !.at = Null].pc = k.pc /\ [k EXCEPT !.at = Null].at = Null
  BY DEF Task
<1> QED
  BY <1>1, <1>2 DEF Detached

(* Ending a task and unlinking a path.                                      *)
LEMMA EndRemovingMove ==
  ASSUME IInv, NEW id \in Ids, NEW p \in Paths, EndTaskRemoving(id, p), UNCHANGED others
  PROVE  TaskMove(id) /\ ~Running(id)'
<1>1. task \in [Ids -> Task] /\ FilesOK
  BY DEF IInv, TypeOK, FilesOK
<1>2. FilesOK'
  BY <1>1 DEF EndTaskRemoving, FilesOK
<1>3. task' = [Detached(task, p) EXCEPT ![id] = NoTask]
  BY DEF EndTaskRemoving, Ended
<1>4. \A o \in Ids : Linked(o)'
  <2>1. task'[id].at = Null
    BY <1>1, <1>3, DetachedFacts DEF NoTask
  <2>2. ASSUME NEW o \in Ids \ {id}
        PROVE  task'[o].pc = task[o].pc /\ task'[o].at = IF task[o].at = p THEN Null ELSE task[o].at
    BY <1>1, <1>3, DetachedFacts
  <2>3. \A q \in Paths \ {p} : files'[q] = files[q]
    BY <1>1 DEF EndTaskRemoving, FilesOK
  <2>4. \A o \in Ids : task[o].at # Null => task[o].at \in Paths
    BY <1>1 DEF Task
  <2> QED
    BY <2>1, <2>2, <2>3, <2>4 DEF Linked, Running, IInv
<1> QED
  BY <1>1, <1>2, <1>3, <1>4, DetachedFacts, NoTaskType DEF TaskMove, Running, NoTask

(* Recording an error, or failing to.                                       *)
LEMMA MarkErrorMove ==
  ASSUME NEW id \in Ids, NEW msg \in AnyError, MarkError(id, msg)
  PROVE  RowMove(id)
  BY DEF MarkError, RowMove

(* Unless the write is lost, marking leaves the row out of `downloading`.   *)
LEMMA MarkSettles ==
  ASSUME IInv, NEW id \in Ids, NEW msg, MarkError(id, msg), ~DbBlips
  PROVE  rows'[id].status # "downloading"
<1> DEFINE e == [rows[id] EXCEPT !.status = "error", !.error = msg, !.aged = FALSE]
<1>1. rows \in Table /\ rows[id] \in Row /\ rows[id].status \in Status
  BY DEF IInv, TypeOK, Table, Row
<1>2. e.status = "error"
  BY <1>1 DEF Row
<1>3. \/ rows' = [rows EXCEPT ![id] = e]
      \/ rows' = rows /\ rows[id].status # "downloading"
  BY DEF MarkError, mark_error
<1> HIDE DEF e
<1> QED
  BY <1>1, <1>2, <1>3 DEF Table

(* Every failing arm of a task action keeps the invariant.                  *)
LEMMA FailKeeps ==
  ASSUME IInv, NEW id \in Ids, Running(id), NEW msgs \in SUBSET AnyError, Fail(id, msgs),
         UNCHANGED others
  PROVE  Kept(id)
<1>1. EndTask(id) /\ RowMove(id)
  BY MarkErrorMove DEF Fail
<1>2. TaskMove(id) /\ ~Running(id)'
  BY <1>1, EndMove
<1> QED
  BY <1>1, <1>2, MarkSettles DEF TaskRow, Kept, Settles, Attended, Fail

(* So does every arm that ends the task and removes a file.                 *)
LEMMA EndRemovingKeeps ==
  ASSUME IInv, NEW id \in Ids, Running(id), NEW p \in Paths, EndTaskRemoving(id, p),
         RowMove(id), UNCHANGED others,
         ~DbBlips /\ Attended(id) => rows'[id].status # "downloading"
  PROVE  Kept(id)
  BY EndRemovingMove DEF TaskRow, Kept, Settles, Attended

(* And every arm that only moves on, off the abandoned places.              *)
LEMMA GotoKeeps ==
  ASSUME IInv, NEW id \in Ids, Running(id),
         NEW pc \in TaskPc \ (Abandoned \cup {"none", "drop_part"}),
         task[id].pc \notin Abandoned \cup {"drop_part"},
         Goto(id, pc), UNCHANGED <<rows, files>>, UNCHANGED others
  PROVE  Kept(id)
<1>1. TaskMove(id) /\ task'[id].pc = pc /\ RowMove(id) /\ rows' = rows
  BY GotoMove DEF RowMove, Running
<1>2. TaskRow(id)'
  BY <1>1 DEF TaskRow, IInv
<1> QED
  BY <1>1, <1>2 DEF Kept, Settles, Attended, Using

(***************************************************************************)
(* One lemma per action of a transfer task.                                *)
(***************************************************************************)

(* A task record for a stream that has just been opened.                    *)
LEMMA SetKeeps ==
  ASSUME IInv, NEW id \in Ids, Running(id), task[id].pc \notin Abandoned \cup {"drop_part"},
         NEW k \in Task, k.pc \notin Abandoned \cup {"none", "drop_part"},
         task' = [task EXCEPT ![id] = k], FilesOK', UNCHANGED rows, UNCHANGED others,
         k.at # Null => files'[k.at] # Null,
         \A p \in Paths : files[p] # Null => files'[p] # Null
  PROVE  Kept(id)
<1>1. TaskMove(id) /\ task'[id] = k /\ RowMove(id)
  BY SetMove DEF RowMove
<1>2. TaskRow(id)'
  BY <1>1 DEF TaskRow, IInv
<1> QED
  BY <1>1, <1>2 DEF Kept, Settles, Attended, Using

(* Starting a transfer, or refusing to.                                     *)
LEMMA StartTaskKeeps == ASSUME IInv, NEW id \in Ids, StartTask(id) PROVE Kept(id)
<1>1. Running(id) /\ FilesOK /\ task[id] \in Task /\ PartOf(id) \in Paths
  <2>1. Running(id)
    BY DEF StartTask, Running
  <2> QED
    BY <2>1, RunningFacts DEF IInv, TypeOK, FilesOK
<1>2. CASE Fail(id, {"fatal"})
  BY <1>1, <1>2, FailKeeps DEF StartTask, AnyError
<1>3. CASE /\ task' = [task EXCEPT ![id] = [@ EXCEPT !.pc = "request",
                                                   !.from = resume_plan(files[PartOf(id)])]]
           /\ UNCHANGED <<rows, files>>
  <2>1. resume_plan(files[PartOf(id)]) \in Nat
    BY <1>1, LenProperties DEF resume_plan, FilesOK
  <2> DEFINE k == [task[id] EXCEPT !.pc = "request", !.from = resume_plan(files[PartOf(id)])]
  <2>2. k \in Task /\ k.pc = "request" /\ k.at = task[id].at
    BY <1>1, <2>1 DEF Task, TaskPc
  <2>3. task' = [task EXCEPT ![id] = k]
    BY <1>3
  <2>4. FilesOK'
    BY <1>1, <1>3 DEF FilesOK
  <2> HIDE DEF k
  <2>5. "request" \notin Abandoned \cup {"none", "drop_part"} /\ task[id].pc \notin Abandoned \cup {"drop_part"}
    BY DEF StartTask, Abandoned
  <2> QED
    BY <1>1, <1>3, <2>2, <2>3, <2>4, <2>5, SetKeeps DEF StartTask, IInv, Linked
<1> QED
  BY <1>2, <1>3 DEF StartTask

(* Opening the `.part` fresh or for append.                                 *)
LEMMA OpenKeeps ==
  ASSUME IInv, NEW id \in Ids, Running(id), task[id].pc = "request",
         NEW total \in Nat \cup {Null}, OpenFresh(id, total) \/ OpenAppend(id, total),
         UNCHANGED rows, UNCHANGED others
  PROVE  Kept(id)
<1>1. FilesOK /\ task[id] \in Task /\ PartOf(id) \in Paths
  BY RunningFacts DEF IInv, TypeOK, FilesOK
<1>2. << >> \in Seq(Chunk)
  OBVIOUS
<1>3. FilesOK'
  BY <1>1, <1>2 DEF OpenFresh, OpenAppend, FilesOK
<1>4. PICK k \in Task : /\ k.pc = "stream" /\ k.at = PartOf(id)
                       /\ task' = [task EXCEPT ![id] = k]
  <2> DEFINE f == [NoTask EXCEPT !.pc = "stream", !.total = total, !.at = PartOf(id)]
             a == [NoTask EXCEPT !.pc = "stream", !.append = TRUE, !.got = task[id].from,
                                 !.put = task[id].from, !.total = total, !.at = PartOf(id)]
  <2>1. f \in Task /\ f.pc = "stream" /\ f.at = PartOf(id)
    BY <1>1, NoTaskType DEF Task, TaskPc, NoTask
  <2>2. a \in Task /\ a.pc = "stream" /\ a.at = PartOf(id)
    BY <1>1, NoTaskType DEF Task, TaskPc, NoTask
  <2>3. task' = [task EXCEPT ![id] = f] \/ task' = [task EXCEPT ![id] = a]
    BY DEF OpenFresh, OpenAppend
  <2> QED
    BY <2>1, <2>2, <2>3
<1>5. "stream" \notin Abandoned \cup {"none", "drop_part"} /\ task[id].pc \notin Abandoned \cup {"drop_part"}
  BY DEF Abandoned
<1>6. files'[PartOf(id)] # Null /\ \A p \in Paths : files[p] # Null => files'[p] # Null
  BY <1>1, <1>2, NoFileAssumption DEF OpenFresh, OpenAppend, FilesOK
<1> QED
  BY <1>3, <1>4, <1>5, <1>6, SetKeeps

(* Every shape of the first response.                                       *)
LEMMA RespondKeeps == ASSUME IInv, NEW id \in Ids, Respond(id) PROVE Kept(id)
<1>1. Running(id) /\ task[id].pc = "request" /\ UNCHANGED others
  BY DEF Respond, Running
<1>2. SizeOf[Url(id)] \in Nat /\ Declared(id) \subseteq Nat \cup {Null}
  BY <1>1, RunningFacts DEF Declared
<1>3. AnyError \in SUBSET AnyError /\ {"fatal"} \in SUBSET AnyError
  BY DEF AnyError
<1>4. CASE Fail(id, AnyError) \/ Fail(id, {"fatal"})
  BY <1>1, <1>3, <1>4, FailKeeps
<1>5. ASSUME NEW total \in Nat \cup {Null}, OpenFresh(id, total) \/ OpenAppend(id, total),
             UNCHANGED rows
      PROVE  Kept(id)
  BY <1>1, <1>5, OpenKeeps
<1>6. CASE task' = [task EXCEPT ![id] = [NoTask EXCEPT !.pc = "reissue"]]
           /\ UNCHANGED <<rows, files>>
  <2> DEFINE k == [NoTask EXCEPT !.pc = "reissue"]
  <2>1. k \in Task /\ k.pc = "reissue" /\ k.at = Null
    BY NoTaskType DEF Task, TaskPc, NoTask
  <2>2. FilesOK'
    BY <1>6 DEF FilesOK, IInv, TypeOK
  <2>3. "reissue" \notin Abandoned \cup {"none", "drop_part"} /\ task[id].pc \notin Abandoned \cup {"drop_part"}
    BY <1>1 DEF Abandoned
  <2> HIDE DEF k
  <2>4. task' = [task EXCEPT ![id] = k]
    BY <1>6 DEF k
  <2> QED
    BY <1>1, <1>6, <2>1, <2>2, <2>3, <2>4, SetKeeps
<1> QED
  BY <1>2, <1>4, <1>5, <1>6 DEF Respond

(* The second request, after a refused resume.                              *)
LEMMA ReissueKeeps == ASSUME IInv, NEW id \in Ids, Reissue(id) PROVE Kept(id)
<1>1. Running(id) /\ task[id].pc = "reissue" /\ UNCHANGED others
  BY DEF Reissue, Running
<1>2. /\ PartOf(id) \in Paths /\ Declared(id) \subseteq Nat \cup {Null}
      /\ task \in [Ids -> Task] /\ FilesOK
  BY <1>1, RunningFacts DEF Declared, IInv, TypeOK, FilesOK
<1>3. AnyError \in SUBSET AnyError /\ {"fatal"} \in SUBSET AnyError
  BY DEF AnyError
<1>4. CASE Fail(id, AnyError) \/ Fail(id, {"fatal"})
  BY <1>1, <1>3, <1>4, FailKeeps
<1>5. CASE (\E msg \in AnyError : MarkError(id, msg)) /\ EndTaskRemoving(id, PartOf(id))
  BY <1>1, <1>2, <1>5, MarkErrorMove, MarkSettles, EndRemovingKeeps
<1>6. ASSUME NEW total \in Nat \cup {Null},
             files' = [files EXCEPT ![PartOf(id)] = << >>],
             task' = [Detached(task, PartOf(id)) EXCEPT
                        ![id] = [NoTask EXCEPT !.pc = "stream", !.total = total,
                                               !.at = PartOf(id)]],
             UNCHANGED rows
      PROVE  Kept(id)
  <2> DEFINE k == [NoTask EXCEPT !.pc = "stream", !.total = total, !.at = PartOf(id)]
             d == Detached(task, PartOf(id))
  <2>1. k \in Task /\ k.pc = "stream" /\ k.at = PartOf(id)
    BY <1>2, NoTaskType DEF Task, TaskPc, NoTask
  <2>2. /\ d \in [Ids -> Task]
        /\ \A o \in Ids : /\ d[o].pc = task[o].pc
                          /\ d[o].at = IF task[o].at = PartOf(id) THEN Null ELSE task[o].at
    BY <1>2, DetachedFacts
  <2>3. << >> \in Seq(Chunk)
    OBVIOUS
  <2>4. FilesOK'
    BY <1>2, <1>6, <2>3 DEF FilesOK
  <2>5. task' = [d EXCEPT ![id] = k]
    BY <1>6
  <2> HIDE DEF d, k
  <2>8. \A o \in Ids : Linked(o)'
    <3>1. files'[PartOf(id)] # Null /\ \A p \in Paths : files[p] # Null => files'[p] # Null
      BY <1>2, <1>6, <2>3, NoFileAssumption DEF FilesOK
    <3>2. \A o \in Ids : task[o].at # Null => task[o].at \in Paths
      BY <1>2 DEF Task
    <3> QED
      BY <2>1, <2>2, <2>5, <3>1, <3>2 DEF Linked, Running, IInv
  <2>6. TaskMove(id) /\ task'[id].pc = "stream"
    BY <1>1, <2>1, <2>2, <2>4, <2>5, <2>8 DEF TaskMove
  <2>7. TaskRow(id)'
    BY <1>1, <1>6, <2>6 DEF IInv, TaskRow, Abandoned
  <2> QED
    BY <1>6, <2>6, <2>7 DEF RowMove, Kept, Settles, Attended, Using
<1> QED
  BY <1>2, <1>4, <1>5, <1>6 DEF Reissue

(* A chunk of the body, or the size cap.                                    *)
LEMMA ReceiveKeeps == ASSUME IInv, NEW id \in Ids, Receive(id) PROVE Kept(id)
<1>1. Running(id) /\ task[id].pc = "stream" /\ UNCHANGED others
  BY DEF Receive, Running
<1>2. {"fatal"} \in SUBSET AnyError /\ task[id] \in Task /\ FilesOK
  BY <1>1, RunningFacts DEF AnyError, IInv, TypeOK, FilesOK
<1>3. CASE Fail(id, {"fatal"})
  BY <1>1, <1>2, <1>3, FailKeeps
<1>4. CASE task' = [task EXCEPT ![id].got = @ + 1] /\ UNCHANGED <<rows, files>>
  <2> DEFINE k == [task[id] EXCEPT !.got = task[id].got + 1]
  <2>1. k \in Task /\ k.pc = "stream" /\ k.at = task[id].at
    BY <1>1, <1>2 DEF Task
  <2>2. task' = [task EXCEPT ![id] = k]
    BY <1>4
  <2> HIDE DEF k
  <2>3. "stream" \notin Abandoned \cup {"none", "drop_part"} /\ FilesOK'
    BY <1>2, <1>4 DEF Abandoned, FilesOK
  <2> QED
    BY <1>1, <1>4, <2>1, <2>2, <2>3, SetKeeps DEF IInv, Linked
<1> QED
  BY <1>3, <1>4 DEF Receive

(* A buffered chunk reaches the file, wherever that file is by now.         *)
LEMMA SpillKeeps == ASSUME IInv, NEW id \in Ids, Spill(id) PROVE Kept(id)
<1> DEFINE k == task[id]
           n == [k EXCEPT !.put = k.put + 1]
<1>1. Running(id) /\ k.pc \in {"stream", "drain"} /\ UNCHANGED others /\ UNCHANGED rows
  BY DEF Spill, Running
<1>2. k \in Task /\ FilesOK /\ Url(id) \in Urls
  BY <1>1, RunningFacts DEF IInv, TypeOK, FilesOK
<1>3. n \in Task /\ n.pc = k.pc /\ n.at = k.at
  BY <1>2 DEF Task
<1>4. task' = [task EXCEPT ![id] = n]
  BY DEF Spill
<1>5. FilesOK' /\ \A p \in Paths : files[p] # Null => files'[p] # Null
  <2>1. CASE k.at = Null
    BY <1>2, <2>1 DEF Spill, FilesOK
  <2>2. CASE k.at # Null
    <3> DEFINE c == files[k.at]
               x == Sent(Url(id), k.put + 1)
               w == WriteAt(c, IF k.append THEN Len(c) ELSE k.put, x)
    <3>1. k.at \in Paths /\ k.put \in Nat
      BY <1>2, <2>2 DEF Task
    <3>2. files' = [files EXCEPT ![k.at] = w]
      BY <2>2 DEF Spill
    <3>3. x \in Chunk
      BY <1>2, <3>1, SentType
    <3>4. c \in Seq(Chunk)
      BY <1>2, <2>2, <3>1 DEF FilesOK, IInv, Linked
    <3>5. w \in Seq(Chunk)
      BY <3>1, <3>3, <3>4, WriteAtType, LenProperties
    <3> HIDE DEF w
    <3> QED
      BY <1>2, <3>1, <3>2, <3>5, NoFileAssumption DEF FilesOK
  <2> QED
    BY <2>1, <2>2
<1>6. n.at # Null => files'[n.at] # Null
  BY <1>2, <1>3, <1>5 DEF IInv, Linked, Task
<1> HIDE DEF n
<1>7. TaskMove(id) /\ task'[id] = n
  BY <1>1, <1>2, <1>3, <1>4, <1>5, <1>6, SetMove
<1>8. TaskRow(id)'
  BY <1>1, <1>3, <1>7 DEF TaskRow, Running, IInv
<1> QED
  BY <1>1, <1>3, <1>7, <1>8 DEF RowMove, Kept, Settles, Attended, Using

(* The body loop sees the cancel and unlinks the staged file.               *)
LEMMA ObserveCancelKeeps == ASSUME IInv, NEW id \in Ids, ObserveCancel(id) PROVE Kept(id)
<1> DEFINE p == PartOf(id)
           d == Detached(task, p)
           k == [d[id] EXCEPT !.pc = "drain"]
<1>1. Running(id) /\ rows[id].status = "cancelled" /\ UNCHANGED others /\ UNCHANGED rows
  BY DEF ObserveCancel, Running
<1>2. p \in Paths /\ task \in [Ids -> Task] /\ FilesOK
  BY <1>1, RunningFacts DEF IInv, TypeOK, FilesOK
<1>3. /\ d \in [Ids -> Task]
      /\ \A o \in Ids : /\ d[o].pc = task[o].pc
                        /\ d[o].at = IF task[o].at = p THEN Null ELSE task[o].at
  BY <1>2, DetachedFacts
<1>4. files' = [files EXCEPT ![p] = Null] /\ task' = [d EXCEPT ![id] = [d[id] EXCEPT !.pc = "drain"]]
  BY <1>3 DEF ObserveCancel
<1> HIDE DEF d, p
<1>5. k \in Task /\ k.pc = "drain" /\ k.at = d[id].at
  BY <1>3 DEF Task, TaskPc
<1>6. task' = [d EXCEPT ![id] = k] /\ FilesOK'
  BY <1>2, <1>4 DEF FilesOK
<1> HIDE DEF k
<1>7. \A o \in Ids : Linked(o)'
  <2>1. \A q \in Paths \ {p} : files'[q] = files[q]
    BY <1>2, <1>4 DEF FilesOK
  <2>2. \A o \in Ids : task[o].at # Null => task[o].at \in Paths
    BY <1>2 DEF Task
  <2> QED
    BY <1>3, <1>5, <1>6, <2>1, <2>2 DEF Linked, Running, IInv
<1>8. TaskMove(id) /\ TaskRow(id)'
  BY <1>1, <1>3, <1>5, <1>6, <1>7 DEF TaskMove, TaskRow
<1> QED
  BY <1>1, <1>8 DEF RowMove, Kept, Settles, Attended

(* A cancelled task ends.                                                   *)
LEMMA DrainedKeeps == ASSUME IInv, NEW id \in Ids, Drained(id) PROVE Kept(id)
<1>1. Running(id) /\ EndTask(id) /\ UNCHANGED others /\ UNCHANGED rows
  BY DEF Drained, Running
<1>2. rows[id].status = "cancelled"
  BY <1>1 DEF Drained, IInv, TaskRow, Abandoned
<1> QED
  BY <1>1, <1>2, EndMove DEF TaskRow, RowMove, Kept, Settles, Attended

(* The body fails.                                                          *)
LEMMA StreamErrorKeeps == ASSUME IInv, NEW id \in Ids, StreamError(id) PROVE Kept(id)
<1>1. Running(id) /\ AnyError \in SUBSET AnyError
  BY DEF StreamError, Running
<1> QED
  BY <1>1, FailKeeps DEF StreamError

(* The body ends, complete or short.                                        *)
LEMMA StreamEndKeeps == ASSUME IInv, NEW id \in Ids, StreamEnd(id) PROVE Kept(id)
<1>1. Running(id) /\ task[id].pc = "stream" /\ UNCHANGED others /\ {"fatal"} \in SUBSET AnyError
  BY DEF StreamEnd, Running, AnyError
<1>2. CASE Fail(id, {"fatal"})
  BY <1>1, <1>2, FailKeeps
<1>3. CASE task' = [task EXCEPT ![id] = [NoTask EXCEPT !.pc = "preverify"]]
           /\ UNCHANGED <<rows, files>>
  <2> DEFINE k == [NoTask EXCEPT !.pc = "preverify"]
  <2>1. k \in Task /\ k.pc = "preverify" /\ k.at = Null
    BY NoTaskType DEF Task, TaskPc, NoTask
  <2>2. task' = [task EXCEPT ![id] = k]
    BY <1>3
  <2> HIDE DEF k
  <2>3. FilesOK' /\ "preverify" \notin Abandoned \cup {"none", "drop_part"}
        /\ "stream" \notin Abandoned \cup {"drop_part"}
    BY <1>3 DEF FilesOK, IInv, TypeOK, Abandoned
  <2> QED
    BY <1>1, <1>3, <2>1, <2>2, <2>3, SetKeeps
<1> QED
  BY <1>2, <1>3 DEF StreamEnd

(* The first cancel check.                                                  *)
LEMMA PreVerifyKeeps == ASSUME IInv, NEW id \in Ids, PreVerify(id) PROVE Kept(id)
<1>1. /\ Running(id) /\ task[id].pc = "preverify" /\ UNCHANGED others
      /\ AnyError \in SUBSET AnyError
  BY DEF PreVerify, Running
<1>2. CASE /\ EndTaskRemoving(id, PartOf(id)) /\ UNCHANGED rows
           /\ rows[id].status # "downloading"
  BY <1>1, <1>2, RunningFacts, EndRemovingKeeps DEF RowMove
<1>3. CASE Goto(id, "verify") /\ UNCHANGED <<rows, files>>
  <2>1. "verify" \in TaskPc \ (Abandoned \cup {"none", "drop_part"})
        /\ task[id].pc \notin Abandoned \cup {"drop_part"}
    BY <1>1 DEF TaskPc, Abandoned
  <2> QED
    BY <1>1, <1>3, <2>1, GotoKeeps
<1>4. CASE Fail(id, AnyError)
  BY <1>1, <1>4, FailKeeps
<1> QED
  BY <1>2, <1>3, <1>4 DEF PreVerify

(* A refused file: the row is marked first, the task then drops the file.   *)
LEMMA RefuseKeeps ==
  ASSUME IInv, NEW id \in Ids, Running(id), task[id].pc \notin Abandoned \cup {"drop_part"},
         MarkError(id, "fatal"), Goto(id, "drop_part"), UNCHANGED files, UNCHANGED others
  PROVE  Kept(id)
<1>1. RowMove(id) /\ "drop_part" \in TaskPc /\ "drop_part" # "none"
  BY MarkErrorMove DEF AnyError, TaskPc
<1>2. TaskMove(id) /\ task'[id].pc = "drop_part"
  BY <1>1, GotoMove DEF Running
<1>3. rows[id].status \in {"cancelled", "downloading"}
  BY DEF IInv, TaskRow
<1>4. rows' = rows \/ (rows'[id].status = "error" /\ rows'[id].error = "fatal")
  <2> DEFINE e == [rows[id] EXCEPT !.status = "error", !.error = "fatal", !.aged = FALSE]
  <2>1. rows[id] \in Row /\ rows \in Table
    BY DEF IInv, TypeOK, Table
  <2>2. e.status = "error" /\ e.error = "fatal"
    BY <2>1 DEF Row
  <2>3. rows' = rows \/ rows' = [rows EXCEPT ![id] = e]
    BY DEF MarkError, mark_error
  <2> HIDE DEF e
  <2> QED
    BY <2>1, <2>2, <2>3 DEF Table
<1>5. TaskRow(id)'
  BY <1>2, <1>3, <1>4 DEF TaskRow, Abandoned
<1> QED
  BY <1>1, <1>2, <1>5, MarkSettles DEF Kept, Settles, Attended

(* Hash, compare, parse.                                                    *)
LEMMA VerifyKeeps == ASSUME IInv, NEW id \in Ids, Verify(id) PROVE Kept(id)
<1> DEFINE c == files[PartOf(id)]
<1>1. /\ Running(id) /\ task[id].pc = "verify" /\ UNCHANGED others /\ task[id] \in Task
      /\ {"fatal"} \in SUBSET AnyError
      /\ task[id].pc \notin Abandoned \cup {"drop_part"}
  <2>1. Running(id) /\ task[id].pc = "verify"
    BY DEF Verify, Running
  <2> QED
    BY <2>1, RunningFacts DEF Verify, AnyError, Abandoned
<1>2. CASE Fail(id, {"fatal"})
  BY <1>1, <1>2, FailKeeps
<1>3. CASE MarkError(id, "fatal") /\ Goto(id, "drop_part") /\ UNCHANGED files
  BY <1>1, <1>3, RefuseKeeps
<1>4. CASE /\ task' = [task EXCEPT ![id] = [@ EXCEPT !.pc = "recheck", !.digest = Digest(c)]]
           /\ UNCHANGED <<rows, files>>
  <2> DEFINE k == [task[id] EXCEPT !.pc = "recheck", !.digest = Digest(c)]
  <2>1. k \in Task /\ k.pc = "recheck" /\ k.at = task[id].at
    BY <1>1, DigestType DEF Task, TaskPc
  <2>2. task' = [task EXCEPT ![id] = k]
    BY <1>4
  <2> HIDE DEF k
  <2>3. FilesOK' /\ "recheck" \notin Abandoned \cup {"none", "drop_part"} /\ files' = files /\ rows' = rows
    BY <1>4 DEF FilesOK, IInv, TypeOK, Abandoned
  <2>4. k.at # Null => files'[k.at] # Null
    BY <2>1, <2>3 DEF IInv, Linked
  <2> QED
    BY <1>1, <2>1, <2>2, <2>3, <2>4, SetKeeps
<1> QED
  BY <1>2, <1>3, <1>4 DEF Verify

(* The second cancel check.                                                 *)
LEMMA RecheckKeeps == ASSUME IInv, NEW id \in Ids, Recheck(id) PROVE Kept(id)
<1>1. /\ Running(id) /\ task[id].pc = "recheck" /\ UNCHANGED others
      /\ AnyError \in SUBSET AnyError
  BY DEF Recheck, Running
<1>2. CASE /\ EndTaskRemoving(id, PartOf(id)) /\ UNCHANGED rows
           /\ rows[id].status = "cancelled"
  BY <1>1, <1>2, RunningFacts, EndRemovingKeeps DEF RowMove
<1>3. CASE Goto(id, "owner") /\ UNCHANGED <<rows, files>>
  <2>1. "owner" \in TaskPc \ (Abandoned \cup {"none", "drop_part"})
        /\ task[id].pc \notin Abandoned \cup {"drop_part"}
    BY <1>1 DEF TaskPc, Abandoned
  <2> QED
    BY <1>1, <1>3, <2>1, GotoKeeps
<1>4. CASE Fail(id, AnyError)
  BY <1>1, <1>4, FailKeeps
<1> QED
  BY <1>2, <1>3, <1>4 DEF Recheck

(* The ownership check of the destination.                                  *)
LEMMA CheckOwnerKeeps == ASSUME IInv, NEW id \in Ids, CheckOwner(id) PROVE Kept(id)
<1>1. /\ Running(id) /\ UNCHANGED others /\ AnyError \in SUBSET AnyError
      /\ task[id].pc \notin Abandoned \cup {"drop_part"}
  BY DEF CheckOwner, Running, Abandoned
<1>2. CASE MarkError(id, "fatal") /\ Goto(id, "drop_part") /\ UNCHANGED files
  BY <1>1, <1>2, RefuseKeeps
<1>3. CASE Goto(id, "rename") /\ UNCHANGED <<rows, files>>
  <2>1. "rename" \in TaskPc \ (Abandoned \cup {"none", "drop_part"})
    BY DEF TaskPc, Abandoned
  <2> QED
    BY <1>1, <1>3, <2>1, GotoKeeps
<1>4. CASE Fail(id, AnyError)
  BY <1>1, <1>4, FailKeeps
<1> QED
  BY <1>2, <1>3, <1>4 DEF CheckOwner

(* A refused file is removed.                                               *)
LEMMA DropPartKeeps == ASSUME IInv, NEW id \in Ids, DropPart(id) PROVE Kept(id)
<1>1. Running(id)
  BY DEF DropPart, Running
<1> QED
  BY <1>1, RunningFacts, EndRemovingKeeps DEF DropPart, RowMove, Attended, Using

(* A cancelled install is removed.                                          *)
LEMMA UnlinkKeeps == ASSUME IInv, NEW id \in Ids, Unlink(id) PROVE Kept(id)
<1>1. Running(id) /\ rows[id].status = "cancelled"
  BY DEF Unlink, Running, IInv, TaskRow, Abandoned
<1> QED
  BY <1>1, RunningFacts, EndRemovingKeeps DEF Unlink, RowMove

(* A rename takes open files along and detaches those of the old target.    *)
LEMMA MovedFacts ==
  ASSUME NEW tk \in [Ids -> Task], NEW p \in Paths, NEW q \in Paths
  PROVE  /\ Moved(tk, p, q) \in [Ids -> Task]
         /\ \A o \in Ids : /\ Moved(tk, p, q)[o].pc = tk[o].pc
                           /\ Moved(tk, p, q)[o].at = IF tk[o].at = q THEN Null
                                                      ELSE IF tk[o].at = p THEN q ELSE tk[o].at
<1>1. ASSUME NEW k \in Task, NEW a \in Paths \cup {Null}
      PROVE  /\ [k EXCEPT !.at = a] \in Task
             /\ [k EXCEPT !.at = a].pc = k.pc /\ [k EXCEPT !.at = a].at = a
  BY DEF Task
<1> QED
  BY <1>1 DEF Moved

(* The install.                                                             *)
LEMMA RenameKeeps == ASSUME IInv, NEW id \in Ids, Rename(id) PROVE Kept(id)
<1> DEFINE p == PartOf(id)
           q == DstOf(id)
           d == Moved(task, p, q)
           k == [d[id] EXCEPT !.pc = "finalize"]
<1>1. /\ Running(id) /\ task[id].pc = "rename" /\ UNCHANGED others
      /\ {"fatal"} \in SUBSET AnyError
  BY DEF Rename, Running, AnyError
<1>2. p \in Paths /\ q \in Paths /\ p # q /\ task \in [Ids -> Task] /\ FilesOK
  BY <1>1, RunningFacts DEF IInv, TypeOK, FilesOK
<1>3. CASE Fail(id, {"fatal"})
  BY <1>1, <1>3, FailKeeps
<1>4. CASE /\ files[PartOf(id)] # Null
           /\ files' = [files EXCEPT ![DstOf(id)] = files[PartOf(id)], ![PartOf(id)] = Null]
           /\ task' = [Moved(task, PartOf(id), DstOf(id)) EXCEPT ![id].pc = "finalize"]
           /\ UNCHANGED rows
  <2>1. /\ d \in [Ids -> Task]
        /\ \A o \in Ids : /\ d[o].pc = task[o].pc
                          /\ d[o].at = IF task[o].at = q THEN Null
                                       ELSE IF task[o].at = p THEN q ELSE task[o].at
    BY <1>2, MovedFacts
  <2>2. /\ files[p] # Null /\ files' = [files EXCEPT ![q] = files[p], ![p] = Null]
        /\ task' = [d EXCEPT ![id] = [d[id] EXCEPT !.pc = "finalize"]] /\ rows' = rows
    BY <1>4, <2>1
  <2> HIDE DEF d, p, q
  <2>3. k \in Task /\ k.pc = "finalize" /\ k.at = d[id].at
    BY <2>1 DEF Task, TaskPc
  <2>4. task' = [d EXCEPT ![id] = k]
    BY <2>2
  <2> HIDE DEF k
  <2>5. /\ FilesOK' /\ files'[q] # Null
        /\ \A r \in Paths \ {p, q} : files'[r] = files[r]
    BY <1>2, <2>2 DEF FilesOK
  <2>6. \A o \in Ids : Linked(o)'
    <3>1. \A o \in Ids : task[o].at # Null => task[o].at \in Paths
      BY <1>2 DEF Task
    <3>2. \A o \in Ids : /\ task'[o].at = d[o].at
                         /\ (task[o].pc # "none" => task'[o].pc # "none")
      BY <2>1, <2>3, <2>4
    <3>3. p # Null
      BY <1>2, TableAssumption DEF Paths
    <3>4. ASSUME NEW o \in Ids PROVE Linked(o)'
      BY <1>2, <2>1, <2>5, <3>1, <3>2, <3>3 DEF Linked, Running, IInv
    <3> QED
      BY <3>4
  <2>7. TaskMove(id) /\ task'[id].pc = "finalize"
    BY <1>1, <2>1, <2>3, <2>4, <2>5, <2>6 DEF TaskMove
  <2>8. TaskRow(id)'
    BY <1>1, <2>2, <2>7 DEF IInv, TaskRow, Abandoned
  <2> QED
    BY <2>2, <2>7, <2>8 DEF RowMove, Kept, Settles, Attended, Using
<1> QED
  BY <1>3, <1>4 DEF Rename

(* The settlement.                                                          *)
LEMMA FinalizeKeeps == ASSUME IInv, NEW id \in Ids, Finalize(id) PROVE Kept(id)
<1>1. /\ Running(id) /\ task[id].pc = "finalize" /\ UNCHANGED others
      /\ AnyError \in SUBSET AnyError
  BY DEF Finalize, Running
<1>2. DstOf(id) \in Paths /\ task[id].digest \in Digests \cup {Null}
  BY <1>1, RunningFacts DEF Task
<1>3. CASE Fail(id, AnyError)
  BY <1>1, <1>3, FailKeeps
<1>4. CASE /\ rows' = finalize_direct(rows, id, DstOf(id), task[id].digest)
           /\ IF rows[id].status = "downloading" THEN task' = Ended(task, id)
                                                 ELSE Goto(id, "discard")
           /\ UNCHANGED files
  <2>1. RowMove(id)
    BY <1>2, <1>4 DEF RowMove
  <2>2. CASE rows[id].status = "downloading"
    <3>1. EndTask(id)
      BY <1>4, <2>2 DEF EndTask
    <3>2. rows'[id].status = "complete"
      <4> DEFINE r == [rows[id] EXCEPT !.status = "complete", !.file_path = DstOf(id),
                                       !.sha256 = task[id].digest, !.aged = FALSE]
      <4>1. rows \in Table /\ rows[id] \in Row
        BY DEF IInv, TypeOK, Table
      <4>2. r.status = "complete"
        BY <4>1 DEF Row
      <4>3. rows' = [rows EXCEPT ![id] = r]
        BY <1>4, <2>2 DEF finalize_direct
      <4> HIDE DEF r
      <4> QED
        BY <4>1, <4>2, <4>3 DEF Table
    <3> QED
      BY <1>1, <2>1, <3>1, <3>2, EndMove DEF TaskRow, Kept, Settles, Attended
  <2>3. CASE rows[id].status # "downloading"
    <3>1. rows' = rows /\ Goto(id, "discard") /\ files' = files
      BY <1>4, <2>3 DEF finalize_direct
    <3>2. rows[id].status = "cancelled"
      BY <1>1, <2>3 DEF IInv, TaskRow
    <3>3. TaskMove(id)
      <4>1. "discard" \in TaskPc /\ "discard" # "none"
        BY DEF TaskPc
      <4> QED
        BY <1>1, <3>1, <4>1, GotoMove DEF Running
    <3>4. TaskRow(id)'
      BY <3>1, <3>2 DEF TaskRow
    <3> QED
      BY <2>1, <3>1, <3>2, <3>3, <3>4 DEF Kept, Settles, Attended
  <2> QED
    BY <2>2, <2>3
<1> QED
  BY <1>3, <1>4 DEF Finalize

(* The ownership check of the discard.                                      *)
LEMMA DiscardKeeps == ASSUME IInv, NEW id \in Ids, Discard(id) PROVE Kept(id)
<1>1. /\ Running(id) /\ task[id].pc = "discard" /\ UNCHANGED others /\ rows' = rows
  BY DEF Discard, Running
<1>2. rows[id].status = "cancelled"
  BY <1>1 DEF IInv, TaskRow, Abandoned
<1>3. CASE EndTask(id)
  BY <1>1, <1>2, <1>3, EndMove DEF TaskRow, RowMove, Kept, Settles, Attended
<1>4. CASE Goto(id, "unlink") /\ UNCHANGED files
  <2>1. TaskMove(id)
    BY <1>1, <1>4, GotoMove DEF TaskPc, Running
  <2>2. TaskRow(id)'
    BY <1>1, <1>2 DEF TaskRow
  <2> QED
    BY <1>1, <1>2, <2>1, <2>2 DEF RowMove, Kept, Settles, Attended
<1> QED
  BY <1>3, <1>4 DEF Discard

(* Every step of a transfer task stays within the frame.                    *)
LEMMA TaskStepKept == ASSUME IInv, NEW id \in Ids, TaskStep(id) PROVE Kept(id) /\ Running(id)
<1>1. Kept(id)
  BY StartTaskKeeps, RespondKeeps, ReissueKeeps, ReceiveKeeps, SpillKeeps,
     ObserveCancelKeeps, DrainedKeeps, StreamErrorKeeps, StreamEndKeeps, PreVerifyKeeps,
     VerifyKeeps, RecheckKeeps, CheckOwnerKeeps, DropPartKeeps, RenameKeeps,
     FinalizeKeeps, DiscardKeeps, UnlinkKeeps DEF TaskStep
<1>2. Running(id)
  BY DEF Running, TaskStep, StartTask, Respond, Reissue, Receive, Spill, ObserveCancel, Drained,
         StreamError, StreamEnd, PreVerify, Verify, Recheck, CheckOwner, DropPart, Rename,
         Finalize, Discard, Unlink
<1> QED
  BY <1>1, <1>2

(* Hence it keeps the invariant.                                            *)
LEMMA TaskStepKeeps == ASSUME IInv, NEW id \in Ids, TaskStep(id) PROVE IInv'
  BY TaskStepKept, TaskFrame DEF Kept
==============================================================================
