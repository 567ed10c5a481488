----------------------------- MODULE TaskManager ------------------------------
(***************************************************************************)
(* AsyncTaskManager: tools submit long jobs from several threads (the      *)
(* event loop runs handlers of react_node, executor threads those of       *)
(* handle_confirm_node), pool workers run them and, through                *)
(* Dispatcher._setup_task_callback, tell the user.                         *)
(*                                                                         *)
(* A task is one submission; its info record keeps the submission it was   *)
(* made for (owner) and its status.  A task_id is the second and the size  *)
(* of _tasks when it was named.  The process pool, used for task types no  *)
(* tool submits, and the notify callback nobody sets are left out.         *)
(*                                                                         *)
(* The jobs in Subtitled are those of media.py: each extracts a video's    *)
(* sound to the one file audio_temp.wav, transcribes that file and deletes *)
(* it; a process killed before may have left one there.  Other jobs are    *)
(* one step.                                                               *)
(***************************************************************************)
EXTENDS Naturals, Sequences, FiniteSets

CONSTANTS Tasks,       \* submissions
          Submitters,  \* threads that may be inside submit at once
          Workers,     \* config.ADV_IO_POOL_MAX_WORKERS
          Subtitled,   \* the submissions of video_add_subtitles
          MaxSecond    \* bound: the clock in seconds

ASSUME TaskAssumption == /\ Submitters \in Nat \ {0} /\ Workers \in Nat \ {0}
                         /\ MaxSecond \in Nat /\ IsFiniteSet(Tasks)
                         /\ Subtitled \subseteq Tasks

VARIABLES
    second,   \* int(time.time())
    sub,      \* per submission, how far submit is
    job,      \* per submission, its job in the pool
    id,       \* per submission, its task_id
    infos,    \* _tasks
    futures,  \* _futures: the submission whose future is stored under an id
    queue,    \* jobs waiting in the pool
    audio,    \* whose sound is in audio_temp.wav, NoFile if there is no such file
    heard,    \* per submission, whose sound it transcribed
    notes,    \* history: messages on_complete sent and the server took
    raced,    \* history: two threads have been inside submit at once
    mixed     \* history: two subtitle jobs ran at once, or one was cut short

sound == <<audio, heard, mixed>>
vars == <<second, sub, job, id, infos, futures, queue, sound, notes, raced>>

NoFile   == "none"
Leftover == "leftover"   \* the sound an earlier process left in the file
Sounds   == Subtitled \cup {NoFile, Leftover}

Ids      == (0..MaxSecond) \X (0..Cardinality(Tasks))
Statuses == {"queued", "running", "completed", "failed", "cancelled"}
Finished == {"completed", "failed"}

Put(f, k, v) == [x \in DOMAIN f \cup {k} |-> IF x = k THEN v ELSE f[x]]

Submitting == {t \in Tasks : sub[t] \in {"named", "stored", "pooled"}}
AtWork     == {"running", "extracted", "deleted"}
Busy       == {t \in Tasks : job[t] \in AtWork \cup {"ended"}}

Init ==
    /\ second = 0 /\ sub = [t \in Tasks |-> "new"] /\ job = [t \in Tasks |-> "none"]
    /\ id = [t \in Tasks |-> <<0, 0>>]
    /\ infos = [i \in {} |-> 0] /\ futures = [i \in {} |-> 0]
    /\ queue = <<>> /\ notes = {} /\ raced = FALSE
    /\ audio \in {NoFile, Leftover} /\ mixed = (audio = Leftover)
    /\ heard = [t \in Tasks |-> NoFile]

\* The clock stops with the last Name, the only one that reads it.
Tick == /\ second < MaxSecond /\ second' = second + 1
        /\ \E t \in Tasks : sub[t] = "new"
        /\ UNCHANGED <<sub, job, id, infos, futures, queue, notes, raced, sound>>
-----------------------------------------------------------------------------
\* Mutant of Name: the id counts the unfinished tasks.
NameByUnfinished(t) ==
    /\ sub[t] = "new" /\ Cardinality(Submitting) < Submitters
    /\ id' = [id EXCEPT ![t] = <<second, Cardinality(
                 {i \in DOMAIN infos : infos[i].status \in {"queued", "running"}})>>]
    /\ sub' = [sub EXCEPT ![t] = "named"]
    /\ raced' = (raced \/ Submitting # {})
    /\ UNCHANGED <<second, job, infos, futures, queue, notes, sound>>

\* submit: the id is made before the lock is taken.
Name(t) ==
    /\ sub[t] = "new" /\ Cardinality(Submitting) < Submitters
    /\ id' = [id EXCEPT ![t] = <<second, Cardinality(DOMAIN infos)>>]
    /\ sub' = [sub EXCEPT ![t] = "named"]
    /\ raced' = (raced \/ Submitting # {})
    /\ UNCHANGED <<second, job, infos, futures, queue, notes, sound>>

\* The info record is stored under the lock.
Store(t) ==
    /\ sub[t] = "named"
    /\ infos' = Put(infos, id[t], [owner |-> t, status |-> "queued"])
    /\ sub' = [sub EXCEPT ![t] = "stored"]
    /\ UNCHANGED <<second, job, id, futures, queue, notes, raced, sound>>

\* pool.submit: a worker may start at once, before the future is stored.
Pool(t) ==
    /\ sub[t] = "stored"
    /\ queue' = Append(queue, t)
    /\ job' = [job EXCEPT ![t] = "queued"]
    /\ sub' = [sub EXCEPT ![t] = "pooled"]
    /\ UNCHANGED <<second, id, infos, futures, notes, raced, sound>>

StoreFuture(t) ==
    /\ sub[t] = "pooled"
    /\ futures' = Put(futures, id[t], t)
    /\ sub' = [sub EXCEPT ![t] = "done"]
    /\ UNCHANGED <<second, job, id, infos, queue, notes, raced, sound>>
-----------------------------------------------------------------------------
\* A subtitle job that starts while another one is at it: nothing is claimed about
\* what they transcribe.
Meets(t) == t \in Subtitled /\ \E u \in Subtitled \ {t} : job[u] \in AtWork

\* _run_task, on a pool worker.
Run(t) ==
    /\ queue # <<>> /\ t = Head(queue) /\ Cardinality(Busy) < Workers
    /\ job[t] = "queued"
    /\ queue' = Tail(queue)
    /\ job' = [job EXCEPT ![t] = "running"]
    /\ infos' = [infos EXCEPT ![id[t]].status = "running"]
    /\ mixed' = (mixed \/ Meets(t))
    /\ UNCHANGED <<second, sub, id, futures, notes, raced, audio, heard>>

\* A worker passes over a job that was cancelled.
Drop(t) ==
    /\ queue # <<>> /\ t = Head(queue) /\ Cardinality(Busy) < Workers
    /\ job[t] = "cancelled"
    /\ queue' = Tail(queue)
    /\ UNCHANGED <<second, sub, job, id, infos, futures, notes, raced, sound>>

\* ffmpeg, whose result is not looked at: it may make no file, and without -y it
\* replaces a file that is there only if somebody at its stdin says so.
Extract(t) ==
    /\ t \in Subtitled /\ job[t] = "running"
    /\ audio' \in {audio, t}
    /\ job' = [job EXCEPT ![t] = "extracted"]
    /\ UNCHANGED <<second, sub, id, infos, futures, queue, notes, raced, heard, mixed>>

\* Mutant of Transcribe: the file is not deleted.
TranscribeOnly(t) ==
    /\ job[t] = "extracted" /\ audio # NoFile
    /\ heard' = [heard EXCEPT ![t] = audio] /\ audio' = audio
    /\ job' = [job EXCEPT ![t] = "deleted"]
    /\ UNCHANGED <<second, sub, id, infos, futures, queue, notes, raced, mixed>>

\* _transcribe_audio of what is in the file, which is then deleted.
Transcribe(t) ==
    /\ job[t] = "extracted" /\ audio # NoFile
    /\ heard' = [heard EXCEPT ![t] = audio] /\ audio' = NoFile
    /\ job' = [job EXCEPT ![t] = "deleted"]
    /\ UNCHANGED <<second, sub, id, infos, futures, queue, notes, raced, mixed>>

\* func returns or raises: ffmpeg at its timeout, with a file of its own or not,
\* or the transcription, and then the file stays.
End(t) ==
    /\ job[t] \in AtWork
    /\ \E st \in Finished :
          /\ t \in Subtitled => (st = "completed" <=> job[t] = "deleted")
          /\ infos' = [infos EXCEPT ![id[t]].status = st]
          /\ mixed' = (mixed \/ (t \in Subtitled /\ st = "failed"))
    /\ audio' \in {audio} \cup (IF job[t] = "running" THEN Subtitled \cap {t} ELSE {})
    /\ job' = [job EXCEPT ![t] = "ended"]
    /\ UNCHANGED <<second, sub, id, futures, queue, notes, raced, heard>>

Told(t) == [job |-> t, user |-> infos[id[t]].owner,
            status |-> infos[id[t]].status, text |-> heard[t]]

\* Mutant of Notify: only completed tasks are reported, failures raise first.
NotifyCompleted(t) ==
    /\ job[t] = "ended" /\ infos[id[t]].status = "completed"
    /\ \/ notes' = notes \cup {Told(t)} /\ job' = [job EXCEPT ![t] = "notified"]
       \/ notes' = notes /\ job' = [job EXCEPT ![t] = "unsent"]
    /\ UNCHANGED <<second, sub, id, infos, futures, queue, raced, sound>>

\* on_complete reads the record by its id and writes to the user named in it;
\* a send_message that fails is passed over, and nobody tries again.
Notify(t) ==
    /\ job[t] = "ended"
    /\ \/ notes' = notes \cup {Told(t)} /\ job' = [job EXCEPT ![t] = "notified"]
       \/ notes' = notes /\ job' = [job EXCEPT ![t] = "unsent"]
    /\ UNCHANGED <<second, sub, id, infos, futures, queue, raced, sound>>

\* cancel: Future.cancel succeeds as long as no worker has taken the job, which
\* stays in the pool's queue.
Cancel(i) ==
    /\ i \in DOMAIN futures
    /\ LET t == futures[i] IN
          /\ job[t] = "queued"
          /\ infos' = [infos EXCEPT ![i].status = "cancelled"]
          /\ job' = [job EXCEPT ![t] = "cancelled"]
    /\ UNCHANGED <<second, sub, id, futures, queue, notes, raced, sound>>

Submit(t) == Name(t) \/ Store(t) \/ Pool(t) \/ StoreFuture(t)
Work(t)   == Run(t) \/ Drop(t) \/ Extract(t) \/ Transcribe(t) \/ End(t) \/ Notify(t)

Next == \/ Tick
        \/ \E t \in Tasks : Submit(t) \/ Work(t)
        \/ \E i \in Ids : Cancel(i)

Spec == Init /\ [][Next]_vars

\* Threads are scheduled, and a job's func ends: every one runs its subprocess
\* with a timeout.
Fairness == \A t \in Tasks : /\ WF_vars(Store(t) \/ Pool(t) \/ StoreFuture(t))
                             /\ WF_vars(Work(t))
FairSpec == Spec /\ Fairness
-----------------------------------------------------------------------------
(* Properties.                                                             *)

\* Types of the tables, the submissions and the pool.
TypeOK ==
    /\ second \in 0..MaxSecond
    /\ sub \in [Tasks -> {"new", "named", "stored", "pooled", "done"}]
    /\ job \in [Tasks -> {"none", "queued", "ended", "notified", "unsent",
                          "cancelled"} \cup AtWork]
    /\ id \in [Tasks -> Ids]
    /\ DOMAIN infos \subseteq Ids
    /\ \A i \in DOMAIN infos : infos[i] \in [owner : Tasks, status : Statuses]
    /\ DOMAIN futures \subseteq DOMAIN infos
    /\ \A i \in DOMAIN futures : futures[i] \in Tasks
    /\ queue \in Seq(Tasks) /\ Cardinality(Busy) <= Workers
    /\ notes \subseteq [job : Tasks, user : Tasks, status : Statuses,
                       text : Sounds]
    /\ raced \in BOOLEAN /\ mixed \in BOOLEAN
    /\ audio \in Sounds /\ heard \in [Tasks -> Sounds]

\* The message about a finished job goes to the user who submitted it and
\* reports how it ended ("完成后通知你" in the tools' answers): no two
\* submissions share a record of _tasks, unless two threads met in submit.
OwnerNotified ==
    ~raced => \A n \in notes : n.user = n.job /\ n.status \in Finished

\* A subtitle job reports the words of its own video, as long as no two of them
\* ran at once and none was cut short, in this process or in an earlier one:
\* every job finds the one audio file gone.
OwnSubtitles ==
    ~mixed => \A n \in notes : n.job \in Subtitled => n.text = n.job

\* A status only moves forward: a finished or cancelled task never counts as
\* queued or running again (list_running), whatever races with cancel.
StatusForward ==
    [][~raced' => \A i \in DOMAIN infos :
          infos[i].status \in Finished \cup {"cancelled"} =>
             infos'[i].status = infos[i].status]_vars

\* In the end every submit has returned and every job it made is cancelled or has
\* come to its on_complete, whatever it raised and even if another submission has
\* taken over its record; a message that is not sent keeps no other job waiting.
EveryJobReported ==
    <>[](\A t \in Tasks :
            \/ sub[t] = "new"
            \/ sub[t] = "done" /\ job[t] \in {"notified", "unsent", "cancelled"})
=============================================================================
