---------------------------- MODULE FeedDispatch ----------------------------
(***************************************************************************)
(* How a collection gets to run: beat and POST /api/feeds/pull send        *)
(* collect_all_feeds to the broker, a Celery worker takes messages from it *)
(* and hands them to the processes of its pool, collect_all_feeds sends    *)
(* one message per source, and each of those runs _run_collection.  When   *)
(* the broker fails, the API process runs the collectors itself.           *)
(*                                                                         *)
(* A message is acknowledged when its run is over, not when it is taken    *)
(* (task_acks_late), and goes back to the broker when its process dies     *)
(* (task_reject_on_worker_lost) or it stays unacknowledged for too long.   *)
(* The soft time limit is an exception raised in the main thread of the    *)
(* process: raised while the event loop waits, it leaves                   *)
(* run_until_complete and ends the task, but not the coroutine, which      *)
(* stays in the loop and goes on when the process runs its next task.      *)
(***************************************************************************)
EXTENDS Integers, Sequences, FiniteSets, SequencesExt

CONSTANTS
    Proc,        \* the processes of the worker's pool (worker_concurrency)
    SourceMap,   \* the sources of collect_all_feeds in their order
    Asks,        \* the lists of sources the pull requests name
    MaxPulls,    \* bound on pull requests
    MaxBeats,    \* bound on what beat sends
    MaxFaults,   \* bound on faults: see Fault
    MaxSent      \* bound on messages, more than those bounds allow to be sent

Source  == Range(SourceMap)
Message == 1 .. MaxSent
\* "all" is collect_all_feeds, "one" the collector of the one source listed,
\* "chore" one of the scheduled tasks that collects no feed of its own.
Body    == [kind : {"all", "one", "chore"}, list : Seq(Source)]
All(l)  == [kind |-> "all", list |-> l]
One(s)  == [kind |-> "one", list |-> <<s>>]
Chore   == [kind |-> "chore", list |-> <<>>]

Prefetch == Cardinality(Proc)    \* worker_prefetch_multiplier is 1

ASSUME ProcAssumption == IsFiniteSet(Proc)
ASSUME AsksAssumption == SourceMap \in Seq(Source) /\ Asks \subseteq Seq(Source)
ASSUME BoundsAssumption ==
    MaxPulls \in Nat /\ MaxBeats \in Nat /\ MaxFaults \in Nat /\ MaxSent \in Nat

VARIABLES
    sent,      \* history: the messages sent, a message is its position here
    queue,     \* the messages in the broker
    reserved,  \* the messages the worker has taken but not started
    proc,      \* what each process runs: a message and the sources left in it
    loop,      \* the runs the soft limit left suspended in each process's loop
    token,     \* the rate limit lets the next collect_all_feeds start
    fallback,  \* the sources left in each background run of the API process
    asked,     \* history: how often each source was asked for
    served,    \* history: how often a run of its collector ended
    refused,   \* history: how often one was given up before it started
    started,   \* history: the messages that were started
    ended,     \* history: the messages that were acknowledged
    pulls, beats, faults

worker  == <<reserved, proc, loop, token>>
broker  == <<sent, queue>>
history == <<asked, served, refused, started, ended>>
bounds  == <<pulls, beats>>
vars    == <<sent, queue, reserved, proc, loop, token, fallback, asked, served,
             refused, started, ended, pulls, beats, faults>>

Idle    == [msg |-> 0, todo |-> <<>>]
Busy    == {p \in Proc : proc[p] # Idle}
Running(p) == sent[proc[p].msg]
Never   == [s \in Source |-> 0]
Times(s, l) == Cardinality({i \in DOMAIN l : l[i] = s})

TypeOK ==
    /\ sent     \in Seq(Body) /\ Len(sent) =< MaxSent
    /\ queue    \in Seq(Message)
    /\ reserved \in Seq(Message)
    /\ proc     \in [Proc -> [msg : Message \cup {0}, todo : Seq(Source)]]
    /\ loop     \in [Proc -> SUBSET Message]
    /\ token    \in BOOLEAN
    /\ fallback \in Seq(Seq(Source))
    /\ asked \in [Source -> Nat] /\ served \in [Source -> Nat] /\ refused \in [Source -> Nat]
    /\ started \subseteq Message /\ ended \subseteq started
    /\ pulls \in 0 .. MaxPulls /\ beats \in 0 .. MaxBeats /\ faults \in 0 .. MaxFaults
    /\ Len(reserved) + Cardinality(Busy) =< Prefetch
-----------------------------------------------------------------------------
Init ==
    /\ sent = <<>> /\ queue = <<>> /\ reserved = <<>>
    /\ proc = [p \in Proc |-> Idle]
    /\ loop = [p \in Proc |-> {}]
    /\ token = TRUE
    /\ fallback = <<>>
    /\ asked = Never /\ served = Never /\ refused = Never
    /\ started = {} /\ ended = {}
    /\ pulls = 0 /\ beats = 0 /\ faults = 0

Send(b) ==
    /\ Len(sent) < MaxSent
    /\ sent' = Append(sent, b)
    /\ queue' = Append(queue, Len(sent) + 1)

\* What f counts, and as often as these lists name each source.
Mentions(s, lists) == UNION {{k} \X {i \in DOMAIN lists[k] : lists[k][i] = s} : k \in DOMAIN lists}
PlusAll(f, lists) == [s \in Source |-> f[s] + Cardinality(Mentions(s, lists))]
Plus(f, l) == [s \in Source |-> f[s] + Times(s, l)]

\* A broken connection of a task, a killed process, a time limit, an expired
\* visibility timeout, a restart.
Fault == faults < MaxFaults /\ faults' = faults + 1

(***************************************************************************)
(* The API process.                                                        *)
(***************************************************************************)
\* Mutant of PullFeeds: the route goes on to its fallback after a success.
PullFeedsTwice ==
    /\ pulls < MaxPulls
    /\ pulls' = pulls + 1
    /\ \E l \in Asks : Send(All(l)) /\ asked' = Plus(asked, l) /\ fallback' = Append(fallback, l)
    /\ UNCHANGED <<worker, served, refused, started, ended, beats, faults>>

\* A valid pull request reaches the broker.
PullFeeds ==
    /\ pulls < MaxPulls
    /\ pulls' = pulls + 1
    /\ \E l \in Asks : Send(All(l)) /\ asked' = Plus(asked, l)
    /\ UNCHANGED <<worker, fallback, served, refused, started, ended, beats, faults>>

\* The broker fails, which MaxPulls bounds: a background thread is to run the
\* collectors.
PullFallsBack ==
    /\ pulls < MaxPulls
    /\ pulls' = pulls + 1
    /\ \E l \in Asks : fallback' = Append(fallback, l) /\ asked' = Plus(asked, l)
    /\ UNCHANGED <<worker, broker, served, refused, started, ended, beats, faults>>

\* The next source of a background run: _run_collection catches its errors.
RunCollectorsSync(i) ==
    /\ fallback[i] # <<>>
    /\ fallback' = [fallback EXCEPT ![i] = Tail(@)]
    /\ served' = [served EXCEPT ![Head(fallback[i])] = @ + 1]
    /\ UNCHANGED <<worker, broker, asked, refused, started, ended, bounds, faults>>

\* A restart of the API process forgets its background runs.
ApiRestarts ==
    /\ Fault
    /\ \E i \in DOMAIN fallback : fallback[i] # <<>>
    /\ fallback' = [i \in DOMAIN fallback |-> <<>>]
    /\ refused' = PlusAll(refused, fallback)
    /\ UNCHANGED <<worker, broker, asked, served, started, ended, bounds>>

\* Beat sends collect_all_feeds for every source, or another scheduled task.
Beat ==
    /\ beats < MaxBeats
    /\ beats' = beats + 1
    /\ \/ Send(All(SourceMap)) /\ asked' = Plus(asked, SourceMap)
       \/ Send(Chore) /\ UNCHANGED asked
    /\ UNCHANGED <<worker, fallback, served, refused, started, ended, pulls, faults>>

(***************************************************************************)
(* The worker.                                                             *)
(***************************************************************************)
\* Mutant of Take: only what has not been started counts as taken.
TakeEager ==
    /\ queue # <<>>
    /\ Len(reserved) < Prefetch
    /\ reserved' = Append(reserved, Head(queue))
    /\ queue' = Tail(queue)
    /\ UNCHANGED <<sent, proc, loop, token, fallback, history, bounds, faults>>

\* While the pool has a process for it, the worker takes the next message.
Take ==
    /\ queue # <<>>
    /\ Len(reserved) + Cardinality(Busy) < Prefetch
    /\ reserved' = Append(reserved, Head(queue))
    /\ queue' = Tail(queue)
    /\ UNCHANGED <<sent, proc, loop, token, fallback, history, bounds, faults>>

\* collect_all_feeds has a rate limit of its own and waits for a token, still
\* unacknowledged; the others overtake it.
Ready(i) == sent[reserved[i]].kind = "all" => token
Next1    == {i \in DOMAIN reserved : Ready(i) /\ \A j \in 1 .. i - 1 : ~Ready(j)}

StartTask(p) ==
    /\ proc[p] = Idle
    /\ \E i \in Next1 : LET m == reserved[i] IN
        /\ proc' = [proc EXCEPT ![p] = [msg |-> m, todo |-> sent[m].list]]
        /\ reserved' = RemoveAt(reserved, i)
        /\ started' = started \cup {m}
        /\ token' = (token /\ sent[m].kind # "all")
    /\ UNCHANGED <<broker, loop, fallback, asked, served, refused, ended, bounds, faults>>

Refill ==
    /\ ~token
    /\ token' = TRUE
    /\ UNCHANGED <<reserved, proc, loop, broker, fallback, history, bounds, faults>>

\* Mutant of Delay: an error ends the loop over the sources.
DelayAllOrNone(p) ==
    /\ proc[p] # Idle /\ Running(p).kind = "all" /\ proc[p].todo # <<>>
    /\ UNCHANGED <<reserved, loop, token, fallback, asked, served, started, ended, bounds>>
    /\ \/ /\ Send(One(Head(proc[p].todo)))
          /\ proc' = [proc EXCEPT ![p].todo = Tail(@)]
          /\ UNCHANGED <<refused, faults>>
       \/ /\ Fault
          /\ refused' = Plus(refused, <<Head(proc[p].todo)>>)
          /\ proc' = [proc EXCEPT ![p].todo = <<>>]
          /\ UNCHANGED broker

\* collect_all_feeds queues its next source; an error costs that source only.
Delay(p) ==
    /\ proc[p] # Idle /\ Running(p).kind = "all" /\ proc[p].todo # <<>>
    /\ proc' = [proc EXCEPT ![p].todo = Tail(@)]
    /\ UNCHANGED <<reserved, loop, token, fallback, asked, served, started, ended, bounds>>
    /\ \/ Send(One(Head(proc[p].todo))) /\ UNCHANGED <<refused, faults>>
       \/ /\ Fault
          /\ refused' = Plus(refused, <<Head(proc[p].todo)>>)
          /\ UNCHANGED broker

\* The message of a run that is over is acknowledged, and its process is free.
Acknowledge(p) ==
    /\ ended' = ended \cup {proc[p].msg}
    /\ proc' = [proc EXCEPT ![p] = Idle]

\* The run returns: every error of a collection is caught and reported in its
\* statistics, also a soft limit that hits the coroutine's own code.
Return(p) ==
    /\ proc[p] # Idle
    /\ Running(p).kind = "all" => proc[p].todo = <<>>
    /\ Acknowledge(p)
    /\ served' = IF Running(p).kind = "one" THEN Plus(served, Running(p).list) ELSE served
    /\ UNCHANGED <<reserved, loop, token, broker, fallback, asked, refused, started, bounds, faults>>

\* The lists of the runs ms.
Lists(ms) == [m \in ms |-> sent[m].list]

\* The soft limit hits the event loop: the task ends, its coroutine stays.
SoftLimit(p) ==
    /\ proc[p] # Idle /\ Running(p).kind # "all"
    /\ Fault
    /\ Acknowledge(p)
    /\ loop' = [loop EXCEPT ![p] = @ \cup {proc[p].msg}]
    /\ UNCHANGED <<reserved, token, broker, fallback, asked, served, refused, started, bounds>>

\* While the process runs another task, what is suspended in its loop runs on.
Resume(p) ==
    /\ proc[p] # Idle
    /\ \E m \in loop[p] :
        /\ loop' = [loop EXCEPT ![p] = @ \ {m}]
        /\ served' = Plus(served, sent[m].list)
    /\ UNCHANGED <<reserved, proc, token, broker, fallback, asked, refused, started, ended, bounds, faults>>

\* A process is replaced after so many tasks, and the runs in its loop with it.
Recycle(p) ==
    /\ proc[p] = Idle /\ loop[p] # {}
    /\ loop' = [loop EXCEPT ![p] = {}]
    /\ refused' = PlusAll(refused, Lists(loop[p]))
    /\ UNCHANGED <<reserved, proc, token, broker, fallback, asked, served, started, ended, bounds, faults>>

\* The hard limit kills the process, and the message counts as dealt with.
HardLimit(p) ==
    /\ proc[p] # Idle /\ Running(p).kind # "all"
    /\ Fault
    /\ Acknowledge(p)
    /\ loop' = [loop EXCEPT ![p] = {}]
    /\ refused' = PlusAll(Plus(refused, Running(p).list), Lists(loop[p]))
    /\ UNCHANGED <<reserved, token, broker, fallback, asked, served, started, bounds>>

\* Mutant of ProcessLost: without task_reject_on_worker_lost the message goes.
ProcessLostForGood(p) ==
    /\ proc[p] # Idle
    /\ Fault
    /\ proc' = [proc EXCEPT ![p] = Idle]
    /\ loop' = [loop EXCEPT ![p] = {}]
    /\ refused' = PlusAll(refused, Lists(loop[p]))
    /\ UNCHANGED <<broker, reserved, token, fallback, asked, served, started, ended, bounds>>

\* The process dies: the broker gets the message back.
ProcessLost(p) ==
    /\ proc[p] # Idle
    /\ Fault
    /\ queue' = Append(queue, proc[p].msg)
    /\ proc' = [proc EXCEPT ![p] = Idle]
    /\ loop' = [loop EXCEPT ![p] = {}]
    /\ refused' = PlusAll(refused, Lists(loop[p]))
    /\ UNCHANGED <<sent, reserved, token, fallback, asked, served, started, ended, bounds>>

\* The worker dies with its pool, and all it had taken goes back, what was
\* running in some order.
WorkerLost ==
    /\ reserved # <<>> \/ Busy # {}
    /\ Fault
    /\ LET runs == {proc[p].msg : p \in Busy} IN
        \E order \in Bijection(1 .. Cardinality(runs), runs) : queue' = queue \o reserved \o order
    /\ reserved' = <<>>
    /\ proc' = [p \in Proc |-> Idle]
    /\ loop' = [p \in Proc |-> {}]
    /\ token' = TRUE
    /\ refused' = PlusAll(refused, Lists(UNION {loop[p] : p \in Proc}))
    /\ UNCHANGED <<sent, fallback, asked, served, started, ended, bounds>>

\* The broker takes a message for lost that the worker still holds.
VisibilityTimeout ==
    /\ Fault
    /\ \E m \in Range(reserved) \cup {proc[p].msg : p \in Busy} : queue' = Append(queue, m)
    /\ UNCHANGED <<sent, worker, fallback, history, bounds>>

\* Nothing is left to do and the bounds are reached.
Quiet ==
    /\ queue = <<>> /\ reserved = <<>> /\ Busy = {}
    /\ \A i \in DOMAIN fallback : fallback[i] = <<>>

Finished ==
    /\ Quiet /\ pulls = MaxPulls /\ beats = MaxBeats
    /\ UNCHANGED vars

Step(p) == Delay(p) \/ Return(p)

Next ==
    \/ PullFeeds \/ PullFallsBack \/ ApiRestarts \/ Beat
    \/ \E i \in DOMAIN fallback : RunCollectorsSync(i)
    \/ Take \/ Refill \/ WorkerLost \/ VisibilityTimeout
    \/ \E p \in Proc : \/ StartTask(p) \/ Step(p) \/ Resume(p) \/ Recycle(p)
                       \/ SoftLimit(p) \/ HardLimit(p) \/ ProcessLost(p)
    \/ Finished

\* The worker takes messages and starts them, the hard limit ends every run
\* that does not end by itself, and time brings the next token.  Nothing is
\* assumed of requests, of beat, of faults, or that a suspended run goes on.
Spec ==
    /\ Init /\ [][Next]_vars
    /\ WF_vars(Take) /\ WF_vars(Refill)
    /\ \A p \in Proc : WF_vars(StartTask(p)) /\ WF_vars(Step(p))
    /\ \A i \in 1 .. MaxPulls : WF_vars(i \in DOMAIN fallback /\ RunCollectorsSync(i))
-----------------------------------------------------------------------------
(* Properties.                                                             *)

SuspendedRuns(s) ==
    Cardinality({run \in Proc \X Message :
                    run[2] \in loop[run[1]] /\ Times(s, sent[run[2]].list) > 0})

\* However often a source's collector was asked for, by beat, by a message of
\* a pull or by its fallback, that often a run of it ends, stays suspended in
\* a loop, or was given up for a reason the dispatcher knows of.
AskedIsServed ==
    \A s \in Source : []<>(served[s] + SuspendedRuns(s) + refused[s] >= asked[s])

\* A fault can repeat the runs that were asked for, but each fault adds at
\* most one repetition: redeliveries do not multiply.
RepeatsBounded ==
    \A s \in Source : served[s] + refused[s] =< asked[s] * (1 + faults)

\* Seen by those who send them tasks, broker and worker are a task queue.
Queue == INSTANCE TaskQueue WITH
    Task <- Message, sent <- Len(sent), started <- started, ended <- ended
QueueSpec == Queue!Spec
=============================================================================
