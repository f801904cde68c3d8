---------------------- MODULE SubagentLifecycleProofs ----------------------
(***************************************************************************)
(* For any number of subagents: SubagentStop is dispatched at most once    *)
(* for each, the manager forgets none that still runs unstopped, the       *)
(* status a caller is given has its row in the trace, and the stop of a    *)
(* handle that only its owner ends carries that status.  The argument is   *)
(* per handle: what each synchronous step makes of a good handle is good.  *)
(* The last part shows that all of it together implements, for each agent, *)
(* the contract of SubagentContract.                                       *)
(***************************************************************************)
EXTENDS SubagentLifecycle, TLAPS

\* Whatever a handle may still become has its row already.
Logged(h) ==
  /\ h.status = "cancelled" => "cancelled" \in h.rows
  /\ h.run = "succeeding" => "succeeded" \in h.rows
  /\ h.run = "cancelling" => "cancelled" \in h.rows
  /\ h.run = "failing" => "failed" \in h.rows
  /\ h.run \in {"draining", "succeeding"} => h.status \in {"succeeded", "cancelled"}
  /\ h.run = "done" => h.status \in Terminal /\ h.status \in h.rows

Good(h) ==
  /\ h \in Handle
  /\ Len(h.stops) <= 1
  /\ \A c \in Caller : h.stage[c] = "hook" => h.stops # <<>>
  /\ Logged(h)

\* What no step takes back.
Grows(h, k) ==
  /\ h.rows \subseteq k.rows
  /\ h.run = "done" => k.run = "done"
  /\ h.stops # <<>> => k.stops # <<>>

AgentInv ==
  \A a \in Agent :
    /\ Good(handle[a])
    /\ mode[a] \in {"unborn", "forked"} => handle[a].run = "none"
    /\ mode[a] # "unborn" /\ a \notin active =>
         handle[a].run = "done" \/ handle[a].stops # <<>>
    /\ result[a] # "none" => result[a] \in handle[a].rows

IInv == TypeOK /\ AgentInv

-----------------------------------------------------------------------------
(* Steps of one handle *)

\* A caller may move to any stage but the hook.
LEMMA StageGood ==
  ASSUME NEW h, Good(h), NEW c \in Caller, NEW s \in Stage \ {"hook"}
  PROVE  LET k == [h EXCEPT !.stage[c] = s]
         IN  Good(k) /\ Grows(h, k) /\ k.run = h.run /\ k.status = h.status
  <1> DEFINE k == [h EXCEPT !.stage[c] = s]
  <1>1. h \in Handle
    BY DEF Good
  <1>2. k \in Handle
    BY <1>1 DEF Handle, Stage
  <1>3. /\ k.stops = h.stops /\ k.rows = h.rows /\ k.run = h.run /\ k.status = h.status
        /\ \A d \in Caller : k.stage[d] = "hook" => h.stage[d] = "hook"
    BY <1>1 DEF Handle
  <1>4. QED
    BY <1>2, <1>3 DEF Good, Grows, Logged

\* The first step of ending a handle keeps it good.
LEMMA StartCloseGood ==
  ASSUME NEW h, Good(h), NEW c \in Caller
  PROVE  LET k == StartClose(h, c) IN Good(k) /\ Grows(h, k) /\ k.run = h.run
  <1>1. CASE InFlight(h)
    <2>1. "interrupt" \in Stage \ {"hook"}
      BY DEF Stage
    <2>2. StartClose(h, c) = [h EXCEPT !.stage[c] = "interrupt"]
      BY <1>1 DEF StartClose
    <2>3. QED
      BY <2>1, <2>2, StageGood
  <1>2. CASE ~InFlight(h)
    <2>1. "close" \in Stage \ {"hook"}
      BY DEF Stage
    <2>2. StartClose(h, c) = [h EXCEPT !.stage[c] = "close"]
      BY <1>2 DEF StartClose
    <2>3. QED
      BY <2>1, <2>2, StageGood
  <1>3. QED
    BY <1>1, <1>2

\* Two steps in a row take nothing back either.
LEMMA GrowsTransitive ==
  ASSUME NEW h, NEW k, NEW l, Grows(h, k), Grows(k, l)
  PROVE  Grows(h, l)
  BY DEF Grows

\* SubagentStop always reports a terminal status.
LEMMA LatestOrType ==
  ASSUME NEW h \in Handle
  PROVE  LatestOr(h) \in Terminal
  BY DEF LatestOr, Handle, Terminal

\* cancel() leaves a good handle, and a run where it was.
LEMMA CancelGood ==
  ASSUME NEW h, Good(h), NEW c \in Caller, NEW g
  PROVE  LET k == CancelStart(h, c, g) IN Good(k) /\ Grows(h, k) /\ k.run = h.run
  <1>1. CASE h.status = "cancelled" \/ h.stops # <<>>
    <2>1. "returned" \in Stage \ {"hook"}
      BY DEF Stage
    <2>2. CancelStart(h, c, g) = [h EXCEPT !.stage[c] = "returned"]
      BY <1>1 DEF CancelStart
    <2>3. QED
      BY <2>1, <2>2, StageGood
  <1>2. CASE ~(h.status = "cancelled" \/ h.stops # <<>>)
    <2> DEFINE k == [h EXCEPT !.reported[c] = LatestOr(h),
                              !.status = "cancelled",
                              !.rows = @ \cup {"cancelled"},
                              !.abort = IF g /\ @ = "none" THEN "cancel" ELSE @]
    <2>1. h \in Handle /\ LatestOr(h) \in Terminal
      BY LatestOrType DEF Good
    <2>2. k \in Handle
      BY <2>1 DEF Handle, Terminal
    <2>3. /\ k.stops = h.stops /\ k.rows = h.rows \cup {"cancelled"} /\ k.run = h.run
          /\ k.status = "cancelled" /\ k.stage = h.stage
      BY <2>1 DEF Handle
    <2>4. Good(k) /\ Grows(h, k)
      BY <2>2, <2>3 DEF Good, Grows, Logged, Terminal
    <2>5. CancelStart(h, c, g) = StartClose(k, c)
      BY <1>2 DEF CancelStart
    <2> HIDE DEF k
    <2>6. QED
      BY <2>3, <2>4, <2>5, StartCloseGood, GrowsTransitive
  <1>3. QED
    BY <1>1, <1>2

\* So does teardown().
LEMMA TeardownGood ==
  ASSUME NEW h, Good(h), NEW c \in Caller
  PROVE  LET k == TeardownStart(h, c) IN Good(k) /\ Grows(h, k) /\ k.run = h.run
  <1>1. CASE h.stops # <<>>
    <2>1. "returned" \in Stage \ {"hook"}
      BY DEF Stage
    <2>2. TeardownStart(h, c) = [h EXCEPT !.stage[c] = "returned"]
      BY <1>1 DEF TeardownStart
    <2>3. QED
      BY <2>1, <2>2, StageGood
  <1>2. CASE ~(h.stops # <<>>)
    <2> DEFINE k == [h EXCEPT !.reported[c] = LatestOr(h)]
    <2>1. h \in Handle /\ LatestOr(h) \in Terminal
      BY LatestOrType DEF Good
    <2>2. k \in Handle
      BY <2>1 DEF Handle
    <2>3. /\ k.stops = h.stops /\ k.rows = h.rows /\ k.run = h.run
          /\ k.status = h.status /\ k.stage = h.stage
      BY <2>1 DEF Handle
    <2>4. Good(k) /\ Grows(h, k)
      BY <2>2, <2>3 DEF Good, Grows, Logged
    <2>5. TeardownStart(h, c) = StartClose(k, c)
      BY <1>2 DEF TeardownStart
    <2> HIDE DEF k
    <2>6. QED
      BY <2>3, <2>4, <2>5, StartCloseGood, GrowsTransitive
  <1>3. QED
    BY <1>1, <1>2

\* Telling the parent changes neither the run nor the rows.
LEMMA OnTerminalGood ==
  ASSUME NEW h, Good(h)
  PROVE  LET k == OnTerminal(h)
         IN  /\ Good(k) /\ Grows(h, k) /\ k.run = h.run /\ k.status = h.status
             /\ k.seen /\ k.rows = h.rows /\ k.stops = h.stops
  <1> DEFINE k == OnTerminal(h)
  <1>1. h \in Handle
    BY DEF Good
  <1>2. ToldStatus(h) \in Terminal
    BY <1>1 DEF ToldStatus, Terminal
  <1>3. k \in Handle
    BY <1>1, <1>2 DEF OnTerminal, Handle
  <1>4. k.stops = h.stops /\ k.rows = h.rows /\ k.run = h.run
        /\ k.status = h.status /\ k.stage = h.stage /\ k.seen
    BY <1>1 DEF OnTerminal, Handle
  <1>5. QED
    BY <1>3, <1>4 DEF Good, Grows, Logged

\* A new trace object changes neither.
LEMMA NewTraceGood ==
  ASSUME NEW h, Good(h)
  PROVE  LET k == NewTrace(h)
         IN  Good(k) /\ Grows(h, k) /\ k.run = h.run /\ k.status = h.status
  <1> DEFINE k == NewTrace(h)
  <1>1. h \in Handle
    BY DEF Good
  <1>2. k \in Handle
    BY <1>1 DEF NewTrace, Handle
  <1>3. k.stops = h.stops /\ k.rows = h.rows /\ k.run = h.run
        /\ k.status = h.status /\ k.stage = h.stage
    BY <1>1 DEF NewTrace, Handle
  <1>4. QED
    BY <1>2, <1>3 DEF Good, Grows, Logged

-----------------------------------------------------------------------------
(* Steps of the run *)

\* A run that starts, or is refused for a cancelled handle, has its rows.
LEMMA StartRunGood ==
  ASSUME NEW h, Good(h), h.run = "none"
  PROVE  Good(StartRun(h)) /\ Grows(h, StartRun(h))
  <1>1. h \in Handle
    BY DEF Good
  <1>2. CASE h.status = "cancelled"
    <2> DEFINE k == [h EXCEPT !.run = "done"]
    <2>1. k \in Handle
      BY <1>1 DEF Handle, Runs
    <2>2. k.stops = h.stops /\ k.rows = h.rows /\ k.run = "done"
          /\ k.status = h.status /\ k.stage = h.stage
      BY <1>1 DEF Handle
    <2>3. Good(k) /\ Grows(h, k)
      BY <1>2, <2>1, <2>2 DEF Good, Grows, Logged, Terminal
    <2>4. QED
      BY <1>2, <2>3 DEF StartRun
  <1>3. CASE h.status # "cancelled"
    <2> DEFINE k == [h EXCEPT !.run = "streaming", !.status = "running"]
    <2>1. k \in Handle
      BY <1>1 DEF Handle, Runs
    <2>2. k.stops = h.stops /\ k.rows = h.rows /\ k.run = "streaming"
          /\ k.status = "running" /\ k.stage = h.stage
      BY <1>1 DEF Handle
    <2>3. Good(k) /\ Grows(h, k)
      BY <2>1, <2>2 DEF Good, Grows, Logged
    <2>4. StartRun(h) = NewTrace(k)
      BY <1>3 DEF StartRun
    <2> HIDE DEF k
    <2>5. QED
      BY <2>3, <2>4, NewTraceGood, GrowsTransitive
  <1>4. QED
    BY <1>2, <1>3

\* Whatever the catch block decides, the row is there before the wait.
LEMMA CatchGood ==
  ASSUME NEW h, Good(h), h.run = "streaming", NEW g
  PROVE  Good(Catch(h, g)) /\ Grows(h, Catch(h, g))
  <1>1. h \in Handle
    BY DEF Good
  <1>2. CASE h.status = "cancelled"
    <2> DEFINE k == [h EXCEPT !.run = "done"]
    <2>1. k \in Handle
      BY <1>1 DEF Handle, Runs
    <2>2. k.stops = h.stops /\ k.rows = h.rows /\ k.run = "done"
          /\ k.status = h.status /\ k.stage = h.stage
      BY <1>1 DEF Handle
    <2>3. Good(k) /\ Grows(h, k)
      BY <1>2, <2>1, <2>2 DEF Good, Grows, Logged, Terminal
    <2>4. Catch(h, g) = OnTerminal(k)
      BY <1>2 DEF Catch
    <2> HIDE DEF k
    <2>5. QED
      BY <2>3, <2>4, OnTerminalGood, GrowsTransitive
  <1>3. CASE h.status # "cancelled" /\ h.abort # "none" /\ ~OwnTimeout(h, g)
    <2> DEFINE k == [h EXCEPT !.run = "cancelling", !.rows = @ \cup {"cancelled"}]
    <2>1. k \in Handle
      BY <1>1 DEF Handle, Runs, Terminal
    <2>2. k.stops = h.stops /\ k.rows = h.rows \cup {"cancelled"}
          /\ k.run = "cancelling" /\ k.status = h.status /\ k.stage = h.stage
      BY <1>1 DEF Handle
    <2>3. Good(k) /\ Grows(h, k)
      BY <2>1, <2>2 DEF Good, Grows, Logged
    <2>4. Catch(h, g) = k
      BY <1>3 DEF Catch
    <2>5. QED
      BY <2>3, <2>4
  <1>4. CASE h.status # "cancelled" /\ ~(h.abort # "none" /\ ~OwnTimeout(h, g))
    <2> DEFINE k == [h EXCEPT !.run = "failing", !.rows = @ \cup {"failed"}]
    <2>1. k \in Handle
      BY <1>1 DEF Handle, Runs, Terminal
    <2>2. k.stops = h.stops /\ k.rows = h.rows \cup {"failed"}
          /\ k.run = "failing" /\ k.status = h.status /\ k.stage = h.stage
      BY <1>1 DEF Handle
    <2>3. Good(k) /\ Grows(h, k)
      BY <1>4, <2>1, <2>2 DEF Good, Grows, Logged
    <2>4. Catch(h, g) = k
      BY <1>4 DEF Catch
    <2>5. QED
      BY <2>3, <2>4
  <1>5. QED
    BY <1>2, <1>3, <1>4

\* Once the row is written the run is over with a status in the trace.
LEMMA WrittenGood ==
  ASSUME NEW h, Good(h), h.run \in {"succeeding", "cancelling", "failing"}
  PROVE  /\ Good(Written(h)) /\ Grows(h, Written(h))
         /\ Written(h).run = "done" /\ Written(h).seen
  <1> DEFINE status == CASE h.run = "cancelling" -> "cancelled"
                         [] h.run = "failing"    -> "failed"
                         [] OTHER                -> h.status
             k == [h EXCEPT !.run = "done", !.status = status,
                            !.latest = IF h.run = "succeeding" THEN @ ELSE status]
  <1>1. h \in Handle /\ Logged(h)
    BY DEF Good
  <1>2. status \in Terminal /\ status \in h.rows
        /\ (status = "cancelled" => "cancelled" \in h.rows)
    <2>1. CASE h.run = "succeeding"
      BY <1>1, <2>1 DEF Logged, Terminal
    <2>2. CASE h.run = "cancelling"
      BY <1>1, <2>2 DEF Logged, Terminal
    <2>3. CASE h.run = "failing"
      BY <1>1, <2>3 DEF Logged, Terminal
    <2>4. QED
      BY <2>1, <2>2, <2>3
  <1> HIDE DEF status
  <1>3. k \in Handle
    BY <1>1, <1>2 DEF Handle, Runs, Terminal
  <1>4. k.stops = h.stops /\ k.rows = h.rows /\ k.run = "done"
        /\ k.status = status /\ k.stage = h.stage
    BY <1>1 DEF Handle
  <1>5. Good(k) /\ Grows(h, k)
    BY <1>2, <1>3, <1>4 DEF Good, Grows, Logged
  <1>6. Written(h) = OnTerminal(k)
    BY DEF Written, status
  <1> HIDE DEF k
  <1>7. QED
    BY <1>4, <1>5, <1>6, OnTerminalGood, GrowsTransitive

\* The row of a success is emitted before the status is final.
LEMMA RowGood ==
  ASSUME NEW h, Good(h), h.run \in {"streaming", "draining"},
         h.status \in {"succeeded", "cancelled"}
  PROVE  LET k == [h EXCEPT !.run = "succeeding", !.rows = @ \cup {"succeeded"}]
         IN  Good(k) /\ Grows(h, k) /\ k.run = "succeeding"
  <1> DEFINE k == [h EXCEPT !.run = "succeeding", !.rows = @ \cup {"succeeded"}]
  <1>1. h \in Handle
    BY DEF Good
  <1>2. k \in Handle
    BY <1>1 DEF Handle, Runs, Terminal
  <1>3. k.stops = h.stops /\ k.rows = h.rows \cup {"succeeded"}
        /\ k.run = "succeeding" /\ k.status = h.status /\ k.stage = h.stage
    BY <1>1 DEF Handle
  <1>4. QED
    BY <1>2, <1>3 DEF Good, Grows, Logged

\* A drain turn follows a success.
LEMMA DrainGood ==
  ASSUME NEW h, Good(h), h.run = "streaming", h.status \in {"succeeded", "cancelled"}
  PROVE  LET k == NewTrace([h EXCEPT !.run = "draining"])
         IN  Good(k) /\ Grows(h, k) /\ k.run = "draining"
  <1> DEFINE k == [h EXCEPT !.run = "draining"]
  <1>1. h \in Handle
    BY DEF Good
  <1>2. k \in Handle
    BY <1>1 DEF Handle, Runs
  <1>3. k.stops = h.stops /\ k.rows = h.rows /\ k.run = "draining"
        /\ k.status = h.status /\ k.stage = h.stage
    BY <1>1 DEF Handle
  <1>4. Good(k) /\ Grows(h, k)
    BY <1>2, <1>3 DEF Good, Grows, Logged
  <1>5. [h EXCEPT !.run = "draining"] = k
    OBVIOUS
  <1> HIDE DEF k
  <1>6. Good(NewTrace(k)) /\ Grows(h, NewTrace(k)) /\ NewTrace(k).run = "draining"
    BY <1>3, <1>4, NewTraceGood, GrowsTransitive
  <1>7. QED
    BY <1>5, <1>6

\* A message that arrived makes the handle a success.
LEMMA SucceedGood ==
  ASSUME NEW h, Good(h), h.run = "streaming"
  PROVE  LET k == [h EXCEPT !.status = "succeeded", !.latest = "succeeded"]
         IN  Good(k) /\ Grows(h, k) /\ k.run = "streaming" /\ k.status = "succeeded"
  <1> DEFINE k == [h EXCEPT !.status = "succeeded", !.latest = "succeeded"]
  <1>1. h \in Handle
    BY DEF Good
  <1>2. k \in Handle
    BY <1>1 DEF Handle, Terminal
  <1>3. k.stops = h.stops /\ k.rows = h.rows /\ k.run = "streaming"
        /\ k.status = "succeeded" /\ k.stage = h.stage
    BY <1>1 DEF Handle
  <1>4. QED
    BY <1>2, <1>3 DEF Good, Grows, Logged

\* Fields of the abort and the retry are no concern of Good.
LEMMA AbortGood ==
  ASSUME NEW h, Good(h), NEW x \in {"none", "own", "cascade", "inherited", "cancel"}
  PROVE  LET k == [h EXCEPT !.abort = x] IN Good(k) /\ Grows(h, k) /\ k.run = h.run
  <1> DEFINE k == [h EXCEPT !.abort = x]
  <1>1. h \in Handle
    BY DEF Good
  <1>2. k \in Handle
    BY <1>1 DEF Handle
  <1>3. k.stops = h.stops /\ k.rows = h.rows /\ k.run = h.run
        /\ k.status = h.status /\ k.stage = h.stage
    BY <1>1 DEF Handle
  <1>4. QED
    BY <1>2, <1>3 DEF Good, Grows, Logged

\* The retry changes neither the run nor the rows.
LEMMA RetryGood ==
  ASSUME NEW h, Good(h), NEW r \in {"pending", "used"}, NEW n \in 1..2
  PROVE  LET k == [h EXCEPT !.retry = r, !.session = n]
         IN  Good(k) /\ Grows(h, k) /\ k.run = h.run
  <1> DEFINE k == [h EXCEPT !.retry = r, !.session = n]
  <1>1. h \in Handle
    BY DEF Good
  <1>2. k \in Handle
    BY <1>1 DEF Handle
  <1>3. k.stops = h.stops /\ k.rows = h.rows /\ k.run = h.run
        /\ k.status = h.status /\ k.stage = h.stage
    BY <1>1 DEF Handle
  <1>4. QED
    BY <1>2, <1>3 DEF Good, Grows, Logged

-----------------------------------------------------------------------------
(* From one handle to the system *)

\* A step of one handle, with what it does to mode, map and result.
LEMMA OneHandle ==
  ASSUME IInv, NEW a \in Agent, NEW k, Good(k), Grows(handle[a], k),
         handle' = [handle EXCEPT ![a] = k],
         \A b \in Agent \ {a} : /\ mode'[b] = mode[b] /\ result'[b] = result[b]
                                /\ b \in active => b \in active',
         mode'[a] \in {"unborn", "forked"} => k.run = "none",
         mode'[a] # "unborn" /\ a \notin active' => k.run = "done" \/ k.stops # <<>>,
         result'[a] # "none" => result'[a] \in k.rows
  PROVE  AgentInv' /\ handle' \in [Agent -> Handle]
  <1>1. handle'[a] = k /\ \A b \in Agent \ {a} : handle'[b] = handle[b]
    BY DEF IInv, TypeOK
  <1>2. k \in Handle
    BY DEF Good
  <1>3. handle' \in [Agent -> Handle]
    BY <1>2 DEF IInv, TypeOK
  <1>4. AgentInv'
    <2> SUFFICES ASSUME NEW b \in Agent
                 PROVE  /\ Good(handle'[b])
                        /\ mode'[b] \in {"unborn", "forked"} => handle'[b].run = "none"
                        /\ mode'[b] # "unborn" /\ b \notin active' =>
                             handle'[b].run = "done" \/ handle'[b].stops # <<>>
                        /\ result'[b] # "none" => result'[b] \in handle'[b].rows
      BY DEF AgentInv
    <2>1. CASE b = a
      BY <1>1, <2>1
    <2>2. CASE b # a
      BY <1>1, <2>2 DEF IInv, AgentInv
    <2>3. QED
      BY <2>1, <2>2
  <1>5. QED
    BY <1>3, <1>4

\* A step of the handle that leaves run, mode, map and result alone.
LEMMA QuietStep ==
  ASSUME IInv, NEW a \in Agent, NEW k, Good(k), Grows(handle[a], k),
         k.run = handle[a].run, handle' = [handle EXCEPT ![a] = k],
         mode' = mode, result' = result, active' = active
  PROVE  AgentInv' /\ handle' \in [Agent -> Handle]
  <1>1. /\ mode'[a] \in {"unborn", "forked"} => k.run = "none"
        /\ mode'[a] # "unborn" /\ a \notin active' => k.run = "done" \/ k.stops # <<>>
        /\ result'[a] # "none" => result'[a] \in k.rows
    BY DEF IInv, AgentInv, Grows
  <1>2. QED
    BY <1>1, OneHandle

\* The same for every handle at once.
LEMMA QuietSteps ==
  ASSUME IInv, handle' = [a \in Agent |-> handle'[a]],
         \A a \in Agent : /\ Good(handle'[a]) /\ Grows(handle[a], handle'[a])
                          /\ handle'[a].run = handle[a].run,
         mode' = mode, result' = result, active' = active
  PROVE  AgentInv' /\ handle' \in [Agent -> Handle]
  <1>1. handle' \in [Agent -> Handle]
    BY DEF Good
  <1>2. QED
    BY <1>1 DEF IInv, AgentInv, Grows

\* A step of the run, which may be over.
LEMMA RunStepGood ==
  ASSUME IInv, NEW a \in Agent, NEW k, Good(k), Grows(handle[a], k), RunStep(a, k),
         mode[a] # "unborn", mode'[a] \notin {"unborn", "forked"},
         \A b \in Agent \ {a} : mode'[b] = mode[b]
  PROVE  /\ AgentInv' /\ handle' \in [Agent -> Handle]
         /\ job' \in [Agent -> {"none", "running", "completed", "failed", "cancelled"}]
         /\ result' \in [Agent -> {"none"} \cup Terminal]
         /\ active' \subseteq active
  <1>1. CASE k.run = "done"
    <2> DEFINE l == IF job[a] = "running" THEN TeardownStart(k, "owner") ELSE k
    <2>1. k.status \in Terminal /\ k.status \in k.rows
      BY <1>1 DEF Good, Logged
    <2>2. Good(l) /\ Grows(k, l) /\ l.run = "done"
      <3>1. "owner" \in Caller
        BY DEF Caller
      <3>2. Grows(k, k)
        BY DEF Grows
      <3>3. QED
        BY <1>1, <3>1, <3>2, TeardownGood
    <2>3. /\ handle' = [handle EXCEPT ![a] = l]
          /\ result' = [result EXCEPT ![a] = k.status]
          /\ job' = IF job[a] = "running" THEN [job EXCEPT ![a] = JobStatus(k.status)] ELSE job
          /\ active' = IF k.seen THEN active \ {a} ELSE active
      BY <1>1 DEF RunStep, RunOver
    <2> HIDE DEF l
    <2>4. /\ job' \in [Agent -> {"none", "running", "completed", "failed", "cancelled"}]
          /\ result' \in [Agent -> {"none"} \cup Terminal]
          /\ active' \subseteq active
      BY <2>1, <2>3 DEF IInv, TypeOK, JobStatus
    <2>5. Grows(handle[a], l)
      BY <2>2, GrowsTransitive
    <2>6. /\ result'[a] = k.status /\ k.status \in l.rows
          /\ \A b \in Agent \ {a} : result'[b] = result[b] /\ (b \in active => b \in active')
      BY <2>1, <2>2, <2>3 DEF IInv, TypeOK, Grows
    <2>7. AgentInv' /\ handle' \in [Agent -> Handle]
      BY <2>2, <2>3, <2>5, <2>6, OneHandle
    <2>8. QED
      BY <2>4, <2>7
  <1>2. CASE k.run # "done"
    <2>1. handle' = [handle EXCEPT ![a] = k] /\ active' = active /\ job' = job /\ result' = result
      BY <1>2 DEF RunStep
    <2>2. /\ a \notin active => k.stops # <<>>
          /\ result[a] # "none" => result[a] \in k.rows
      BY <1>2 DEF IInv, AgentInv, Grows
    <2>3. AgentInv' /\ handle' \in [Agent -> Handle]
      BY <2>1, <2>2, OneHandle
    <2>4. QED
      BY <2>1, <2>3 DEF IInv, TypeOK
  <1>3. QED
    BY <1>1, <1>2

-----------------------------------------------------------------------------
(* The inductive invariant *)

\* The invariant holds before anything is forked.
LEMMA InitInv == Init => IInv
  <1> SUFFICES ASSUME Init PROVE IInv
    OBVIOUS
  <1>1. NewHandle \in Handle
    BY DEF NewHandle, Handle, Runs, Stage, Terminal, Caller
  <1>2. NewHandle.run = "none" /\ NewHandle.status = "idle" /\ Len(NewHandle.stops) = 0
        /\ \A c \in Caller : NewHandle.stage[c] = "none"
    BY DEF NewHandle
  <1>3. Good(NewHandle)
    BY <1>1, <1>2 DEF Good, Logged
  <1>4. \A a \in Agent : handle[a] = NewHandle
    BY DEF Init
  <1>5. TypeOK
    BY <1>1 DEF Init, TypeOK, Modes
  <1>6. AgentInv
    BY <1>2, <1>3, <1>4 DEF Init, AgentInv
  <1>7. QED
    BY <1>5, <1>6 DEF IInv

\* Forking, registering, starting and promoting keep the invariant.
LEMMA DispatchInv ==
  ASSUME IInv, NEW a \in Agent,
         \/ Fork(a) \/ Register(a) \/ RefuseJob(a) \/ StartForeground(a)
         \/ Promote(a) \/ Adopt(a) \/ RefusePromotion(a)
  PROVE  IInv'
  <1> DEFINE h == handle[a]
  <1>1. Good(h) /\ (mode[a] \in {"unborn", "forked"} => h.run = "none")
    BY DEF IInv, AgentInv
  <1>2. "owner" \in Caller /\ Grows(h, h)
    BY DEF Caller, Grows
  <1>3. CASE Fork(a)
    <2> DEFINE x == IF root = "live" THEN h.abort ELSE "cascade"
               k == [h EXCEPT !.abort = x]
    <2>1. x \in {"none", "own", "cascade", "inherited", "cancel"}
      BY <1>1 DEF Good, Handle
    <2>2. Good(k) /\ Grows(h, k) /\ k.run = h.run
      BY <1>1, <2>1, AbortGood
    <2>3. handle' = [handle EXCEPT ![a] = k]
      BY <1>3 DEF Fork, IInv, TypeOK
    <2>4. /\ mode' = [mode EXCEPT ![a] = "forked"] /\ mode[a] = "unborn"
          /\ active' = active \cup {a} /\ result' = result
      BY <1>3 DEF Fork
    <2> HIDE DEF k
    <2>5. /\ mode'[a] = "forked" /\ a \in active'
          /\ \A b \in Agent \ {a} : mode'[b] = mode[b]
          /\ result'[a] # "none" => result'[a] \in k.rows
      BY <1>1, <2>2, <2>4 DEF IInv, TypeOK, AgentInv, Grows
    <2>6. AgentInv' /\ handle' \in [Agent -> Handle]
      BY <1>1, <2>2, <2>3, <2>4, <2>5, OneHandle
    <2>7. TypeOK'
      BY <1>3, <2>6 DEF Fork, IInv, TypeOK, Modes, managing, sweeping
    <2>8. QED
      BY <2>6, <2>7 DEF IInv
  <1>4. CASE Register(a)
    <2> DEFINE k == StartRun(h)
               l == IF k.run = "done" THEN TeardownStart(k, "owner") ELSE k
    <2>1. Good(k) /\ Grows(h, k)
      BY <1>1, <1>4, StartRunGood DEF Register
    <2>2. Good(l) /\ Grows(k, l)
      BY <1>2, <2>1, TeardownGood DEF Grows
    <2>3. /\ mode' = [mode EXCEPT ![a] = "background"] /\ mode[a] = "forked"
          /\ active' = active
          /\ handle' = [handle EXCEPT ![a] = l]
          /\ result' = IF k.run = "done" THEN [result EXCEPT ![a] = k.status] ELSE result
          /\ job' = [job EXCEPT ![a] = IF k.run = "done" THEN JobStatus(k.status) ELSE "running"]
      BY <1>4 DEF Register
    <2>4. k.run = "done" => k.status \in Terminal /\ k.status \in k.rows
      BY <2>1 DEF Good, Logged
    <2>5. Grows(h, l)
      BY <2>1, <2>2, GrowsTransitive
    <2> HIDE DEF k, l
    <2>6. /\ mode'[a] = "background"
          /\ \A b \in Agent \ {a} : mode'[b] = mode[b] /\ result'[b] = result[b]
          /\ result'[a] # "none" => result'[a] \in l.rows
      BY <1>1, <2>2, <2>3, <2>4, <2>5 DEF IInv, TypeOK, AgentInv, Grows
    <2>7. a \notin active => l.run = "done" \/ l.stops # <<>>
      BY <2>3, <2>5 DEF IInv, AgentInv, Grows
    <2>8. AgentInv' /\ handle' \in [Agent -> Handle]
      BY <2>2, <2>3, <2>5, <2>6, <2>7, OneHandle
    <2>9. /\ job' \in [Agent -> {"none", "running", "completed", "failed", "cancelled"}]
          /\ result' \in [Agent -> {"none"} \cup Terminal]
          /\ mode' \in [Agent -> Modes]
          /\ active' \subseteq {b \in Agent : mode'[b] # "unborn"}
      BY <2>3, <2>4, <2>6 DEF IInv, TypeOK, JobStatus, Modes
    <2>10. QED
      BY <1>4, <2>8, <2>9 DEF Register, IInv, TypeOK, managing, sweeping
  <1>5. CASE RefuseJob(a)
    <2> DEFINE k == TeardownStart(h, "owner")
    <2>1. Good(k) /\ Grows(h, k) /\ k.run = h.run
      BY <1>1, <1>2, TeardownGood
    <2>2. /\ mode' = [mode EXCEPT ![a] = "rejected"] /\ mode[a] = "forked"
          /\ active' = active /\ result' = result
          /\ handle' = [handle EXCEPT ![a] = k]
      BY <1>5 DEF RefuseJob
    <2> HIDE DEF k
    <2>3. /\ mode'[a] = "rejected"
          /\ \A b \in Agent \ {a} : mode'[b] = mode[b]
          /\ result'[a] # "none" => result'[a] \in k.rows
          /\ a \notin active => k.run = "done" \/ k.stops # <<>>
      BY <2>1, <2>2 DEF IInv, TypeOK, AgentInv, Grows
    <2>4. AgentInv' /\ handle' \in [Agent -> Handle]
      BY <2>1, <2>2, <2>3, OneHandle
    <2>5. TypeOK'
      BY <1>5, <2>4 DEF RefuseJob, IInv, TypeOK, Modes, managing, sweeping
    <2>6. QED
      BY <2>4, <2>5 DEF IInv
  <1>6. CASE StartForeground(a)
    <2> DEFINE k == StartRun(h)
    <2>1. /\ mode' = [mode EXCEPT ![a] = "foreground"] /\ mode[a] = "forked" /\ RunStep(a, k)
      BY <1>6 DEF StartForeground
    <2>2. Good(k) /\ Grows(h, k)
      BY <1>1, <2>1, StartRunGood
    <2>3. mode'[a] = "foreground" /\ \A b \in Agent \ {a} : mode'[b] = mode[b]
      BY <2>1 DEF IInv, TypeOK
    <2> HIDE DEF k
    <2>4. /\ AgentInv' /\ handle' \in [Agent -> Handle]
          /\ job' \in [Agent -> {"none", "running", "completed", "failed", "cancelled"}]
          /\ result' \in [Agent -> {"none"} \cup Terminal]
          /\ active' \subseteq active
      BY <2>1, <2>2, <2>3, RunStepGood
    <2>5. TypeOK'
      BY <1>6, <2>1, <2>3, <2>4 DEF StartForeground, IInv, TypeOK, Modes, managing, sweeping
    <2>6. QED
      BY <2>4, <2>5 DEF IInv
  <1>7. CASE Promote(a) \/ RefusePromotion(a)
    <2>1. /\ handle' = handle /\ active' = active /\ job' = job /\ result' = result
          /\ root' = root /\ shutdown' = shutdown /\ sweep' = sweep /\ swept' = swept
          /\ released' = released
      BY <1>7 DEF Promote, RefusePromotion, managing, sweeping
    <2>2. \E m \in {"promoting", "refused"} : mode' = [mode EXCEPT ![a] = m]
      BY <1>7 DEF Promote, RefusePromotion
    <2>3. mode[a] \in {"foreground", "promoting"}
      BY <1>7 DEF Promote, RefusePromotion
    <2>4. /\ mode' \in [Agent -> Modes]
          /\ \A b \in Agent : /\ mode'[b] = "unborn" <=> mode[b] = "unborn"
                              /\ mode'[b] = "forked" <=> mode[b] = "forked"
      BY <2>2, <2>3 DEF IInv, TypeOK, Modes
    <2>5. TypeOK'
      BY <2>1, <2>4 DEF IInv, TypeOK
    <2>6. AgentInv'
      BY <2>1, <2>4 DEF IInv, AgentInv
    <2>7. QED
      BY <2>5, <2>6 DEF IInv
  <1>8. CASE Adopt(a)
    <2> DEFINE k == IF result[a] = "none" THEN h ELSE TeardownStart(h, "owner")
    <2>1. Good(k) /\ Grows(h, k) /\ k.run = h.run
      BY <1>1, <1>2, TeardownGood
    <2>2. /\ mode' = [mode EXCEPT ![a] = "promoted"] /\ mode[a] = "promoting"
          /\ active' = active /\ result' = result
          /\ job' = [job EXCEPT ![a] = IF result[a] = "none" THEN "running" ELSE JobStatus(result[a])]
      BY <1>8 DEF Adopt
    <2>3. handle' = [handle EXCEPT ![a] = k]
      BY <1>8 DEF Adopt, IInv, TypeOK
    <2> HIDE DEF k
    <2>4. /\ mode'[a] = "promoted"
          /\ \A b \in Agent \ {a} : mode'[b] = mode[b]
          /\ result'[a] # "none" => result'[a] \in k.rows
          /\ a \notin active => k.run = "done" \/ k.stops # <<>>
      BY <2>1, <2>2 DEF IInv, TypeOK, AgentInv, Grows
    <2>5. AgentInv' /\ handle' \in [Agent -> Handle]
      BY <2>1, <2>2, <2>3, <2>4, OneHandle
    <2>6. job' \in [Agent -> {"none", "running", "completed", "failed", "cancelled"}]
      BY <2>2 DEF IInv, TypeOK, JobStatus
    <2>7. QED
      BY <1>8, <2>2, <2>4, <2>5, <2>6 DEF Adopt, IInv, TypeOK, Modes, managing, sweeping
  <1>9. QED
    BY <1>3, <1>4, <1>5, <1>6, <1>7, <1>8

\* A step of the run that leaves its surroundings alone keeps it.
LEMMA RunKeepsInv ==
  ASSUME IInv, NEW a \in Agent, NEW k, handle[a].run # "none",
         Good(k), Grows(handle[a], k), RunStep(a, k),
         UNCHANGED <<managing, mode, released, sweeping>>
  PROVE  IInv'
  <1>1. mode[a] \notin {"unborn", "forked"} /\ mode' = mode
    BY DEF IInv, AgentInv
  <1>2. /\ AgentInv' /\ handle' \in [Agent -> Handle]
        /\ job' \in [Agent -> {"none", "running", "completed", "failed", "cancelled"}]
        /\ result' \in [Agent -> {"none"} \cup Terminal]
        /\ active' \subseteq active
    BY <1>1, RunStepGood
  <1>3. QED
    BY <1>2 DEF IInv, TypeOK, managing, sweeping

\* A step of a handle that only its own fields notice keeps it.
LEMMA QuietKeepsInv ==
  ASSUME IInv, NEW a \in Agent, NEW k, Good(k), Grows(handle[a], k),
         k.run = handle[a].run, handle' = [handle EXCEPT ![a] = k],
         UNCHANGED <<active, managing, mode, job, result, released, sweeping>>
  PROVE  IInv'
  <1>1. AgentInv' /\ handle' \in [Agent -> Handle]
    BY QuietStep
  <1>2. QED
    BY <1>1 DEF IInv, TypeOK, managing, sweeping

\* The manager lets go of a handle whose stop has been dispatched.
LEMMA LeaveKeepsInv ==
  ASSUME IInv, NEW a \in Agent, NEW k, Good(k), Grows(handle[a], k),
         k.run = handle[a].run, k.stops # <<>>, handle' = [handle EXCEPT ![a] = k],
         active' = active \ {a},
         UNCHANGED <<managing, mode, job, result, released, sweeping>>
  PROVE  IInv'
  <1>1. /\ \A b \in Agent \ {a} : mode'[b] = mode[b] /\ result'[b] = result[b]
                                 /\ (b \in active => b \in active')
        /\ mode'[a] \in {"unborn", "forked"} => k.run = "none"
        /\ result'[a] # "none" => result'[a] \in k.rows
    BY DEF IInv, AgentInv, Grows
  <1>2. AgentInv' /\ handle' \in [Agent -> Handle]
    BY <1>1, OneHandle
  <1>3. QED
    BY <1>2 DEF IInv, TypeOK, managing, sweeping

\* Every step of the run keeps it.
LEMMA RunInv ==
  ASSUME IInv, NEW a \in Agent,
         \/ StreamReturns(a) \/ DrainReturns(a) \/ StreamThrows(a) \/ ModelRejected(a)
         \/ FallbackStarts(a) \/ TimesOut(a) \/ IdleFires(a) \/ RowWritten(a)
  PROVE  IInv'
  <1> DEFINE h == handle[a]
  <1>1. Good(h) /\ h \in Handle
    BY DEF IInv, AgentInv, Good
  <1>2. CASE StreamReturns(a)
    <2> DEFINE k == [h EXCEPT !.status = "succeeded", !.latest = "succeeded"]
               d == NewTrace([k EXCEPT !.run = "draining"])
               r == [k EXCEPT !.run = "succeeding", !.rows = @ \cup {"succeeded"}]
    <2>1. h.run = "streaming" /\ UNCHANGED <<managing, mode, released, sweeping>>
      BY <1>2 DEF StreamReturns
    <2>2. Good(k) /\ Grows(h, k) /\ k.run = "streaming" /\ k.status = "succeeded"
      BY <1>1, <2>1, SucceedGood
    <2>3. RunStep(a, d) \/ RunStep(a, r)
      BY <1>2 DEF StreamReturns
    <2> HIDE DEF k
    <2>4. Good(d) /\ Grows(k, d)
      BY <2>2, DrainGood
    <2>5. Good(r) /\ Grows(k, r)
      BY <2>2, RowGood
    <2> HIDE DEF d, r
    <2>6. Grows(h, d) /\ Grows(h, r)
      BY <2>2, <2>4, <2>5, GrowsTransitive
    <2>7. QED
      BY <2>1, <2>3, <2>4, <2>5, <2>6, RunKeepsInv
  <1>3. CASE DrainReturns(a)
    <2> DEFINE d == NewTrace(h)
               r == [h EXCEPT !.run = "succeeding", !.rows = @ \cup {"succeeded"}]
    <2>1. h.run = "draining" /\ UNCHANGED <<managing, mode, released, sweeping>>
      BY <1>3 DEF DrainReturns
    <2>2. RunStep(a, d) \/ RunStep(a, r)
      BY <1>3 DEF DrainReturns
    <2>3. h.status \in {"succeeded", "cancelled"}
      BY <1>1, <2>1 DEF Good, Logged
    <2>4. Good(d) /\ Grows(h, d)
      BY <1>1, NewTraceGood
    <2>5. Good(r) /\ Grows(h, r)
      BY <1>1, <2>1, <2>3, RowGood
    <2> HIDE DEF d, r
    <2>6. QED
      BY <2>1, <2>2, <2>4, <2>5, RunKeepsInv
  <1>4. CASE StreamThrows(a)
    <2> DEFINE k == Catch(h, a \in active)
    <2>1. /\ h.run = "streaming" /\ UNCHANGED <<managing, mode, released, sweeping>>
          /\ RunStep(a, k)
      BY <1>4 DEF StreamThrows
    <2>2. Good(k) /\ Grows(h, k)
      BY <1>1, <2>1, CatchGood
    <2> HIDE DEF k
    <2>3. QED
      BY <2>1, <2>2, RunKeepsInv
  <1>5. CASE ModelRejected(a)
    <2> DEFINE k == [h EXCEPT !.retry = "pending", !.session = h.session]
    <2>1. Good(k) /\ Grows(h, k) /\ k.run = h.run
      <3>1. h.session \in 1..2
        BY <1>1 DEF Handle
      <3>2. QED
        BY <1>1, <3>1, RetryGood
    <2>2. /\ handle' = [handle EXCEPT ![a].retry = "pending"]
          /\ UNCHANGED <<active, managing, mode, job, result, released, sweeping>>
      BY <1>5 DEF ModelRejected
    <2>3. k = [h EXCEPT !.retry = "pending"]
      BY <1>1 DEF Handle
    <2>4. handle' = [handle EXCEPT ![a] = k]
      BY <2>2, <2>3
    <2> HIDE DEF k
    <2>5. QED
      BY <2>1, <2>2, <2>4, QuietKeepsInv
  <1>6. CASE FallbackStarts(a)
    <2> DEFINE k == [h EXCEPT !.retry = "used", !.session = 2]
    <2>1. Good(k) /\ Grows(h, k) /\ k.run = h.run
      <3>1. "used" \in {"pending", "used"} /\ 2 \in 1..2
        OBVIOUS
      <3>2. QED
        BY <1>1, <3>1, RetryGood
    <2>2. /\ handle' = [handle EXCEPT ![a] = NewTrace(k)]
          /\ UNCHANGED <<active, managing, mode, job, result, released, sweeping>>
      BY <1>6 DEF FallbackStarts, IInv, TypeOK
    <2> HIDE DEF k
    <2>3. Good(NewTrace(k)) /\ Grows(k, NewTrace(k)) /\ NewTrace(k).run = h.run
      BY <2>1, NewTraceGood
    <2>4. Grows(h, NewTrace(k))
      BY <2>1, <2>3, GrowsTransitive
    <2>5. QED
      BY <2>2, <2>3, <2>4, QuietKeepsInv
  <1>7. CASE TimesOut(a)
    <2> DEFINE x == IF h.abort = "none" THEN "own" ELSE h.abort
               k == [h EXCEPT !.abort = x]
               l == Catch(k, a \in active)
    <2>1. /\ h.run = "streaming" /\ UNCHANGED <<managing, mode, released, sweeping>>
          /\ RunStep(a, l)
      BY <1>7 DEF TimesOut
    <2>2. x \in {"none", "own", "cascade", "inherited", "cancel"}
      BY <1>1 DEF Handle
    <2>3. Good(k) /\ Grows(h, k) /\ k.run = "streaming"
      BY <1>1, <2>1, <2>2, AbortGood
    <2> HIDE DEF k
    <2>4. Good(l) /\ Grows(k, l)
      BY <2>3, CatchGood
    <2> HIDE DEF l
    <2>5. QED
      BY <2>1, <2>3, <2>4, GrowsTransitive, RunKeepsInv
  <1>8. CASE IdleFires(a)
    <2> DEFINE k == [h EXCEPT !.abort = "own"]
    <2>1. Good(k) /\ Grows(h, k) /\ k.run = h.run
      BY <1>1, AbortGood
    <2>2. /\ handle' = [handle EXCEPT ![a] = k]
          /\ UNCHANGED <<active, managing, mode, job, result, released, sweeping>>
      BY <1>8 DEF IdleFires, IInv, TypeOK
    <2> HIDE DEF k
    <2>3. QED
      BY <2>1, <2>2, QuietKeepsInv
  <1>9. CASE RowWritten(a)
    <2>1. /\ h.run \in {"succeeding", "cancelling", "failing"}
          /\ UNCHANGED <<managing, mode, released, sweeping>>
          /\ RunStep(a, Written(h))
      BY <1>9 DEF RowWritten
    <2>2. Good(Written(h)) /\ Grows(h, Written(h))
      BY <1>1, <2>1, WrittenGood
    <2>3. QED
      BY <2>1, <2>2, RunKeepsInv
  <1>10. QED
    BY <1>2, <1>3, <1>4, <1>5, <1>6, <1>7, <1>8, <1>9

\* Every step of cancel(), teardown() and the release keeps it.
LEMMA EndInv ==
  ASSUME IInv, NEW a \in Agent, NEW c \in Caller,
         \/ Interrupted(a, c) \/ Closed(a, c) \/ HookReturns(a, c)
         \/ CancelByUser(a) \/ ForegroundEnds(a) \/ Release(a)
  PROVE  IInv'
  <1> DEFINE h == handle[a]
             s == [h EXCEPT !.stage[c] = "returned"]
  <1>1. Good(h) /\ h \in Handle /\ {"user", "owner"} \subseteq Caller
    BY DEF IInv, AgentInv, Good, Caller
  <1>2. Good(s) /\ Grows(h, s) /\ s.run = h.run
    <2>1. "returned" \in Stage \ {"hook"}
      BY DEF Stage
    <2>2. QED
      BY <1>1, <2>1, StageGood
  <1>3. Good(OnTerminal(s)) /\ Grows(h, OnTerminal(s)) /\ OnTerminal(s).run = h.run
    <2> HIDE DEF s
    <2>1. QED
      BY <1>2, OnTerminalGood, GrowsTransitive
  <1>4. CASE Interrupted(a, c)
    <2> DEFINE k == [h EXCEPT !.stage[c] = "close"]
    <2>1. "close" \in Stage \ {"hook"}
      BY DEF Stage
    <2>2. Good(k) /\ Grows(h, k) /\ k.run = h.run
      BY <1>1, <2>1, StageGood
    <2>3. /\ handle' = [handle EXCEPT ![a] = k]
          /\ UNCHANGED <<active, managing, mode, job, result, released, sweeping>>
      BY <1>4 DEF Interrupted, IInv, TypeOK
    <2> HIDE DEF k
    <2>4. QED
      BY <2>2, <2>3, QuietKeepsInv
  <1>5. CASE Closed(a, c) /\ h.stops = <<>>
    <2> DEFINE k == [h EXCEPT !.stops = Append(@, h.reported[c]), !.stage[c] = "hook"]
    <2>1. h.reported[c] \in Terminal
      BY <1>1 DEF Handle
    <2>2. k.stops = <<h.reported[c]>> /\ k.stops \in Seq(Terminal) /\ Len(k.stops) = 1
      BY <1>1, <1>5, <2>1 DEF Handle
    <2>3. k \in Handle
      BY <1>1, <2>1, <2>2 DEF Handle, Stage
    <2>4. k.rows = h.rows /\ k.run = h.run /\ k.status = h.status
      BY <1>1 DEF Handle
    <2>5. Logged(k)
      BY <1>1, <2>4 DEF Good, Logged
    <2>6. /\ handle' = [handle EXCEPT ![a] = k]
          /\ UNCHANGED <<active, managing, mode, job, result, released, sweeping>>
      BY <1>5 DEF Closed
    <2> HIDE DEF k
    <2>7. Good(k) /\ Grows(h, k)
      BY <2>2, <2>3, <2>4, <2>5 DEF Good, Grows
    <2>8. QED
      BY <2>4, <2>6, <2>7, QuietKeepsInv
  <1>6. CASE (Closed(a, c) /\ h.stops # <<>>) \/ HookReturns(a, c)
    <2>1. h.stops # <<>>
      BY <1>1, <1>6 DEF HookReturns, Good
    <2>2. handle' = [handle EXCEPT ![a] = OnTerminal(s)]
      BY <1>6 DEF Closed, HookReturns, IInv, TypeOK
    <2>3. /\ active' = active \ {a}
          /\ UNCHANGED <<managing, mode, job, result, released, sweeping>>
      BY <1>6 DEF Closed, HookReturns
    <2> HIDE DEF s
    <2>4. OnTerminal(s).stops # <<>>
      BY <1>3, <2>1 DEF Grows
    <2>5. QED
      BY <1>3, <2>2, <2>3, <2>4, LeaveKeepsInv
  <1>7. CASE CancelByUser(a)
    <2> DEFINE k == CancelStart(h, "user", a \in active)
    <2>1. Good(k) /\ Grows(h, k) /\ k.run = h.run
      BY <1>1, CancelGood
    <2>2. /\ handle' = [handle EXCEPT ![a] = k]
          /\ UNCHANGED <<active, managing, mode, job, result, released, sweeping>>
      BY <1>7 DEF CancelByUser, IInv, TypeOK
    <2> HIDE DEF k
    <2>3. QED
      BY <2>1, <2>2, QuietKeepsInv
  <1>8. CASE ForegroundEnds(a)
    <2> DEFINE k == TeardownStart(h, "owner")
    <2>1. Good(k) /\ Grows(h, k) /\ k.run = h.run
      BY <1>1, TeardownGood
    <2>2. /\ handle' = [handle EXCEPT ![a] = k]
          /\ UNCHANGED <<active, managing, mode, job, result, released, sweeping>>
      BY <1>8 DEF ForegroundEnds, IInv, TypeOK
    <2> HIDE DEF k
    <2>3. QED
      BY <2>1, <2>2, QuietKeepsInv
  <1>9. CASE Release(a)
    <2>1. /\ handle' = handle /\ active' = active /\ mode' = mode /\ result' = result
          /\ released' \in [Agent -> Nat]
      BY <1>9 DEF Release, IInv, TypeOK
    <2>2. QED
      BY <1>9, <2>1 DEF Release, IInv, TypeOK, AgentInv, managing, sweeping
  <1>10. QED
    BY <1>4, <1>5, <1>6, <1>7, <1>8, <1>9

\* An abort from above is no concern of Good.
LEMMA CascadeGood ==
  ASSUME NEW h, Good(h)
  PROVE  Good(Cascade(h)) /\ Grows(h, Cascade(h)) /\ Cascade(h).run = h.run
  <1> DEFINE x == CASE h.abort = "none" -> "cascade"
                    [] h.abort = "own"  -> "inherited"
                    [] OTHER            -> h.abort
             k == [h EXCEPT !.abort = x]
  <1>1. h \in Handle /\ Grows(h, h)
    BY DEF Good, Grows
  <1>2. x \in {"none", "own", "cascade", "inherited", "cancel"}
    BY <1>1 DEF Handle
  <1>3. Good(k) /\ Grows(h, k) /\ k.run = h.run
    BY <1>2, AbortGood
  <1>4. Cascade(h) = IF root # "live" THEN h ELSE k
    BY DEF Cascade
  <1> HIDE DEF k
  <1>5. QED
    BY <1>1, <1>3, <1>4

\* So do the steps of the registry and the manager on all their handles.
LEMMA FleetInv ==
  ASSUME IInv,
         \/ SweepBegins \/ SweepDrains \/ SweepSettles \/ SweepTimesOut
         \/ ParentAborts \/ DrainBegins \/ DrainEnds \/ TeardownAll
  PROVE  IInv'
  <1>1. \A a \in Agent : Good(handle[a]) /\ Grows(handle[a], handle[a])
    BY DEF IInv, AgentInv, Grows
  <1>2. {"registry", "manager"} \subseteq Caller
    BY DEF Caller
  <1>3. CASE SweepBegins
    <2>1. /\ \A a \in Agent : handle'[a] = IF a \in Running
               THEN CancelStart(handle[a], "registry", a \in active) ELSE handle[a]
          /\ handle' = [a \in Agent |-> handle'[a]]
      BY <1>3 DEF SweepBegins
    <2>2. \A a \in Agent : /\ Good(handle'[a]) /\ Grows(handle[a], handle'[a])
                           /\ handle'[a].run = handle[a].run
      BY <1>1, <1>2, <2>1, CancelGood
    <2>3. mode' = mode /\ result' = result /\ active' = active
      BY <1>3 DEF SweepBegins
    <2>4. AgentInv' /\ handle' \in [Agent -> Handle]
      BY <2>1, <2>2, <2>3, QuietSteps
    <2>5. QED
      BY <1>3, <2>4 DEF SweepBegins, IInv, TypeOK, Running, managing
  <1>4. CASE SweepDrains \/ SweepSettles \/ SweepTimesOut \/ DrainEnds
    <2>1. handle' = handle /\ mode' = mode /\ result' = result /\ active' = active
      BY <1>4 DEF SweepDrains, SweepSettles, SweepTimesOut, DrainEnds
    <2>2. AgentInv'
      BY <2>1 DEF IInv, AgentInv
    <2>3. TypeOK'
      BY <1>4, <2>1 DEF SweepDrains, SweepSettles, SweepTimesOut, DrainEnds, Rearmed,
                        IInv, TypeOK, managing, sweeping
    <2>4. QED
      BY <2>2, <2>3 DEF IInv
  <1>5. CASE ParentAborts
    <2>1. PICK why \in {"cascade", "inherited"} :
            handle' = [a \in Agent |-> IF a \in active /\ handle[a].abort = "none"
                        THEN [handle[a] EXCEPT !.abort = why] ELSE handle[a]]
      BY <1>5 DEF ParentAborts
    <2>2. /\ \A a \in Agent : \/ handle'[a] = [handle[a] EXCEPT !.abort = why]
                              \/ handle'[a] = handle[a]
          /\ handle' = [a \in Agent |-> handle'[a]]
      BY <2>1
    <2>3. why \in {"none", "own", "cascade", "inherited", "cancel"}
      OBVIOUS
    <2>4. \A a \in Agent : /\ Good(handle'[a]) /\ Grows(handle[a], handle'[a])
                           /\ handle'[a].run = handle[a].run
      <3> SUFFICES ASSUME NEW a \in Agent
                   PROVE  /\ Good(handle'[a]) /\ Grows(handle[a], handle'[a])
                          /\ handle'[a].run = handle[a].run
        OBVIOUS
      <3> DEFINE k == [handle[a] EXCEPT !.abort = why]
      <3>1. Good(k) /\ Grows(handle[a], k) /\ k.run = handle[a].run
        BY <1>1, <2>3, AbortGood
      <3>2. handle'[a] = k \/ handle'[a] = handle[a]
        BY <2>2
      <3> HIDE DEF k
      <3>3. QED
        BY <1>1, <3>1, <3>2
    <2>5. mode' = mode /\ result' = result /\ active' = active
      BY <1>5 DEF ParentAborts
    <2>6. AgentInv' /\ handle' \in [Agent -> Handle]
      BY <2>2, <2>4, <2>5, QuietSteps
    <2>7. QED
      BY <1>5, <2>6 DEF ParentAborts, IInv, TypeOK, sweeping
  <1>6. CASE DrainBegins
    <2>1. /\ \A a \in Agent : handle'[a] = IF a \in active
               THEN CancelStart(Cascade(handle[a]), "manager", TRUE) ELSE handle[a]
          /\ handle' = [a \in Agent |-> handle'[a]]
      BY <1>6 DEF DrainBegins
    <2>2. \A a \in Agent : /\ Good(handle'[a]) /\ Grows(handle[a], handle'[a])
                           /\ handle'[a].run = handle[a].run
      <3> SUFFICES ASSUME NEW a \in Agent
                   PROVE  /\ Good(handle'[a]) /\ Grows(handle[a], handle'[a])
                          /\ handle'[a].run = handle[a].run
        OBVIOUS
      <3> DEFINE k == Cascade(handle[a])
                 l == CancelStart(k, "manager", TRUE)
      <3>1. Good(k) /\ Grows(handle[a], k) /\ k.run = handle[a].run
        BY <1>1, CascadeGood
      <3>2. handle'[a] = l \/ handle'[a] = handle[a]
        BY <2>1
      <3> HIDE DEF k
      <3>3. Good(l) /\ Grows(k, l) /\ l.run = k.run
        BY <1>2, <3>1, CancelGood
      <3> HIDE DEF l
      <3>4. QED
        BY <1>1, <3>1, <3>2, <3>3, GrowsTransitive
    <2>3. mode' = mode /\ result' = result /\ active' = active
      BY <1>6 DEF DrainBegins
    <2>4. AgentInv' /\ handle' \in [Agent -> Handle]
      BY <2>1, <2>2, <2>3, QuietSteps
    <2>5. QED
      BY <1>6, <2>4 DEF DrainBegins, IInv, TypeOK, sweeping
  <1>7. CASE TeardownAll
    <2>1. /\ \A a \in Agent : handle'[a] = IF a \in active
               THEN TeardownStart(handle[a], "manager") ELSE handle[a]
          /\ handle' = [a \in Agent |-> handle'[a]]
      BY <1>7 DEF TeardownAll
    <2>2. \A a \in Agent : /\ Good(handle'[a]) /\ Grows(handle[a], handle'[a])
                           /\ handle'[a].run = handle[a].run
      BY <1>1, <1>2, <2>1, TeardownGood
    <2>3. mode' = mode /\ result' = result /\ active' = active
      BY <1>7 DEF TeardownAll
    <2>4. AgentInv' /\ handle' \in [Agent -> Handle]
      BY <2>1, <2>2, <2>3, QuietSteps
    <2>5. QED
      BY <1>7, <2>4 DEF TeardownAll, IInv, TypeOK, sweeping
  <1>8. QED
    BY <1>3, <1>4, <1>5, <1>6, <1>7

\* Every step keeps the invariant, and so does a stutter.
LEMMA NextInv == IInv /\ [Next]_vars => IInv'
  <1> SUFFICES ASSUME IInv, [Next]_vars PROVE IInv'
    OBVIOUS
  <1>1. CASE UNCHANGED vars
    BY <1>1 DEF vars, IInv, TypeOK, AgentInv
  <1>2. CASE \E a \in Agent : \/ Fork(a) \/ Register(a) \/ RefuseJob(a) \/ StartForeground(a)
                              \/ Promote(a) \/ Adopt(a) \/ RefusePromotion(a)
    BY <1>2, DispatchInv
  <1>3. CASE \E a \in Agent : \/ StreamReturns(a) \/ DrainReturns(a) \/ StreamThrows(a)
                              \/ ModelRejected(a) \/ FallbackStarts(a) \/ TimesOut(a)
                              \/ IdleFires(a) \/ RowWritten(a)
    BY <1>3, RunInv
  <1>4. CASE \E a \in Agent, c \in Caller :
                 \/ Interrupted(a, c) \/ Closed(a, c) \/ HookReturns(a, c)
                 \/ CancelByUser(a) \/ ForegroundEnds(a) \/ Release(a)
    BY <1>4, EndInv
  <1>5. CASE \/ SweepBegins \/ SweepDrains \/ SweepSettles \/ SweepTimesOut
             \/ ParentAborts \/ DrainBegins \/ DrainEnds \/ TeardownAll
    BY <1>5, FleetInv
  <1>6. QED
    <2>1. "user" \in Caller
      BY DEF Caller
    <2>2. QED
      BY <1>1, <1>2, <1>3, <1>4, <1>5, <2>1 DEF Next

\* The strengthening holds in every reachable state.
THEOREM Invariant == Spec => []IInv
  <1>1. QED
    BY InitInv, NextInv, PTL DEF Spec

-----------------------------------------------------------------------------
(* What the runs check on one agent, for any number of them *)

\* The state of handles, manager, registry and promotion is always well typed,
\* and the manager's map holds only agents that forkSubagent made.
THEOREM TypeInvariant == Spec => []TypeOK
  <1>1. IInv => TypeOK
    BY DEF IInv
  <1>2. QED
    BY <1>1, Invariant, PTL

\* Whoever cancels or tears down a handle, in whatever order, SubagentStop is
\* dispatched at most once (dispatchStopAndRelease).
THEOREM StopDispatchedOnce == Spec => []StopOnce
  <1>1. IInv => StopOnce
    BY DEF IInv, AgentInv, Good, StopOnce
  <1>2. QED
    BY <1>1, Invariant, PTL

\* A handle leaves the manager's map only when its run is over or its stop was
\* dispatched (_onTerminal and the release after the hook).
THEOREM NotForgotten == Spec => []LeavesWhenOver
  <1>1. IInv => LeavesWhenOver
    BY DEF IInv, AgentInv, LeavesWhenOver
  <1>2. QED
    BY <1>1, Invariant, PTL

\* The status of a SubagentResult always has its terminal row in the trace.
THEOREM ResultIsTraced == Spec => []TraceAgrees
  <1>1. IInv => TraceAgrees
    BY DEF IInv, AgentInv, TraceAgrees
  <1>2. QED
    BY <1>1, Invariant, PTL

-----------------------------------------------------------------------------
(* What SubagentStop says of a handle that nobody but its owner has ended *)

Unended(h) == h.stage["owner"] = "none" /\ h.stops = <<>>

\* A quiet run is a success from its last turn on, is ended only when it is over,
\* and its stop then says what its latest turn came to.
Faithful(h) ==
  /\ h.run \in {"draining", "succeeding"} => h.status = "succeeded" /\ h.latest = "succeeded"
  /\ h.run # "done" => h.status # "cancelled"
  /\ h.run \notin {"none", "done"} => Unended(h)
  /\ h.run = "done" =>
       /\ h.status = LatestOr(h)
       /\ h.stage["owner"] \in {"interrupt", "close"} => h.reported["owner"] = h.status
       /\ \A i \in 1..Len(h.stops) : h.stops[i] = h.status

\* A handle with its owner's mode and its result.
Matches(h, m, r) ==
  /\ r # "none" => h.run = "done"
  /\ Quiet(h) => /\ Faithful(h)
                 /\ m \in {"unborn", "forked"} => Unended(h)
                 /\ r # "none" => r = h.status

Matching == \A a \in Agent : Matches(handle[a], mode[a], result[a])

\* What the result is once the run has become h.
ResultOf(h) == IF h.run = "done" THEN h.status ELSE "none"

\* Once another caller has begun to end a handle nothing is claimed of it.
LEMMA NoisyMatches ==
  ASSUME NEW h \in Handle, NEW k \in Handle, NEW c \in Caller \ {"owner"},
         NEW m, NEW r, Matches(h, m, r), k.run = h.run, k.stage[c] # "none"
  PROVE  Matches(k, m, r)
  BY DEF Matches, Quiet

\* A stage that was entered is never "none" again.
LEMMA StartCloseStage ==
  ASSUME NEW h \in Handle, NEW c \in Caller
  PROVE  StartClose(h, c).stage[c] # "none"
  BY DEF StartClose, Handle

\* cancel() by another caller.
LEMMA CancelMatches ==
  ASSUME NEW h, Good(h), NEW c \in Caller \ {"owner"}, NEW g, NEW m, NEW r, Matches(h, m, r)
  PROVE  Matches(CancelStart(h, c, g), m, r)
  <1> DEFINE k == CancelStart(h, c, g)
  <1>1. h \in Handle /\ k \in Handle /\ k.run = h.run
    BY CancelGood DEF Good
  <1>2. k.stage[c] # "none"
    <2>1. CASE h.status = "cancelled" \/ h.stops # <<>>
      BY <1>1, <2>1 DEF CancelStart, Handle
    <2>2. CASE ~(h.status = "cancelled" \/ h.stops # <<>>)
      <3> DEFINE l == [h EXCEPT !.reported[c] = LatestOr(h),
                                !.status = "cancelled",
                                !.rows = @ \cup {"cancelled"},
                                !.abort = IF g /\ @ = "none" THEN "cancel" ELSE @]
      <3>1. h \in Handle /\ LatestOr(h) \in Terminal
        BY <1>1, LatestOrType
      <3>2. l \in Handle
        BY <3>1 DEF Handle, Terminal
      <3>3. k = StartClose(l, c)
        BY <2>2 DEF CancelStart
      <3> HIDE DEF l
      <3>4. QED
        BY <3>2, <3>3, StartCloseStage
    <2>3. QED
      BY <2>1, <2>2
  <1> HIDE DEF k
  <1>3. QED
    BY <1>1, <1>2, NoisyMatches DEF k

\* teardown() of the whole fleet.
LEMMA TeardownMatches ==
  ASSUME NEW h, Good(h), NEW c \in Caller \ {"owner"}, NEW m, NEW r, Matches(h, m, r)
  PROVE  Matches(TeardownStart(h, c), m, r)
  <1> DEFINE k == TeardownStart(h, c)
  <1>1. h \in Handle /\ k \in Handle /\ k.run = h.run
    BY TeardownGood DEF Good
  <1>2. k.stage[c] # "none"
    <2>1. CASE h.stops # <<>>
      BY <1>1, <2>1 DEF TeardownStart, Handle
    <2>2. CASE h.stops = <<>>
      <3> DEFINE l == [h EXCEPT !.reported[c] = LatestOr(h)]
      <3>1. l \in Handle
        BY <1>1, LatestOrType DEF Handle
      <3>2. k = StartClose(l, c)
        BY <2>2 DEF TeardownStart
      <3> HIDE DEF l
      <3>3. QED
        BY <3>1, <3>2, StartCloseStage
    <2>3. QED
      BY <2>1, <2>2
  <1> HIDE DEF k
  <1>3. QED
    BY <1>1, <1>2, NoisyMatches DEF k

\* teardown() by the owner, who waits for the run: it reports the latest turn.
LEMMA OwnerMatches ==
  ASSUME NEW h \in Handle, h.run \in {"none", "done"}, NEW m, NEW r, Matches(h, m, r),
         NEW n \in Modes \ {"unborn", "forked"}
  PROVE  Matches(TeardownStart(h, "owner"), n, r)
  <1> DEFINE k == TeardownStart(h, "owner")
  <1>1. "owner" \in Caller /\ LatestOr(h) \in Terminal
    BY LatestOrType DEF Caller
  <1>2. /\ k.run = h.run /\ k.status = h.status /\ k.latest = h.latest /\ k.stops = h.stops
        /\ Quiet(k) => Quiet(h)
        /\ k.stage["owner"] \in {"interrupt", "close"} => k.reported["owner"] = LatestOr(h)
    <2>1. CASE h.stops # <<>>
      BY <1>1, <2>1 DEF TeardownStart, Handle, Quiet
    <2>2. CASE h.stops = <<>>
      BY <1>1, <2>2 DEF TeardownStart, StartClose, InFlight, Handle, Quiet
    <2>3. QED
      BY <2>1, <2>2
  <1>3. LatestOr(k) = LatestOr(h)
    BY <1>2 DEF LatestOr
  <1> HIDE DEF k
  <1>4. QED
    BY <1>2, <1>3 DEF Matches, Faithful, k

\* Telling the parent, a new trace object, an abort and a retry change nothing here.
LEMMA SameMatches ==
  ASSUME NEW h, NEW k, NEW m, NEW r, Matches(h, m, r),
         k.run = h.run, k.status = h.status, k.latest = h.latest,
         k.stops = h.stops, k.stage = h.stage, k.reported = h.reported
  PROVE  Matches(k, m, r)
  BY DEF Matches, Quiet, Faithful, Unended, LatestOr

\* Telling the parent keeps what is claimed of a handle.
LEMMA OnTerminalMatches ==
  ASSUME NEW h \in Handle, NEW m, NEW r, Matches(h, m, r)
  PROVE  Matches(OnTerminal(h), m, r)
  <1> DEFINE k == OnTerminal(h)
  <1>1. /\ k.run = h.run /\ k.status = h.status /\ k.latest = h.latest
        /\ k.stops = h.stops /\ k.stage = h.stage /\ k.reported = h.reported
    BY DEF OnTerminal, Handle
  <1> HIDE DEF k
  <1>2. QED
    BY <1>1, SameMatches DEF k

\* So does a new trace object.
LEMMA NewTraceMatches ==
  ASSUME NEW h \in Handle, NEW m, NEW r, Matches(h, m, r)
  PROVE  Matches(NewTrace(h), m, r)
  <1> DEFINE k == NewTrace(h)
  <1>1. /\ k.run = h.run /\ k.status = h.status /\ k.latest = h.latest
        /\ k.stops = h.stops /\ k.stage = h.stage /\ k.reported = h.reported
    BY DEF NewTrace, Handle
  <1> HIDE DEF k
  <1>2. QED
    BY <1>1, SameMatches DEF k

\* A handle whose run is started is its owner's alone, or it was cancelled.
LEMMA StartRunMatches ==
  ASSUME NEW h \in Handle, h.run = "none", NEW n \in Modes \ {"unborn", "forked"},
         Matches(h, "forked", "none")
  PROVE  Matches(StartRun(h), n, ResultOf(StartRun(h)))
  <1>1. CASE h.status = "cancelled"
    <2> DEFINE k == [h EXCEPT !.run = "done"]
    <2>1. k.run = "done" /\ k.status = h.status /\ k.stage = h.stage
      BY DEF Handle
    <2>2. ~Quiet(h)
      BY <1>1 DEF Matches, Faithful
    <2>3. StartRun(h) = k
      BY <1>1 DEF StartRun
    <2> HIDE DEF k
    <2>4. QED
      BY <1>1, <2>1, <2>2, <2>3 DEF Matches, Quiet, ResultOf
  <1>2. CASE h.status # "cancelled"
    <2> DEFINE k == StartRun(h)
    <2>1. /\ k.run = "streaming" /\ k.status = "running" /\ k.stage = h.stage
          /\ k.stops = h.stops
      BY <1>2 DEF StartRun, NewTrace, Handle
    <2> HIDE DEF k
    <2>2. QED
      BY <2>1 DEF Matches, Quiet, Faithful, Unended, ResultOf, k
  <1>3. QED
    BY <1>1, <1>2

\* The catch block finds a quiet handle uncancelled and awaits its row.
LEMMA CatchMatches ==
  ASSUME NEW h \in Handle, h.run = "streaming", NEW g,
         NEW n \in Modes \ {"unborn", "forked"}, Matches(h, n, "none")
  PROVE  Matches(Catch(h, g), n, ResultOf(Catch(h, g)))
  <1> DEFINE k == Catch(h, g)
  <1>1. CASE h.status = "cancelled"
    <2>1. k.run = "done" /\ k.status = h.status /\ k.stage = h.stage
      BY <1>1 DEF Catch, OnTerminal, Handle
    <2>2. ~Quiet(h)
      BY <1>1 DEF Matches, Faithful
    <2> HIDE DEF k
    <2>3. QED
      BY <1>1, <2>1, <2>2 DEF Matches, Quiet, ResultOf, k
  <1>2. CASE h.status # "cancelled"
    <2>1. /\ k.run \in {"cancelling", "failing"} /\ k.status = h.status
          /\ k.stage = h.stage /\ k.stops = h.stops
      BY <1>2 DEF Catch, Handle
    <2> HIDE DEF k
    <2>2. QED
      BY <1>2, <2>1 DEF Matches, Quiet, Faithful, Unended, ResultOf, k
  <1>3. QED
    BY <1>1, <1>2

\* The status decided before the row was awaited becomes the latest one with it.
LEMMA WrittenMatches ==
  ASSUME NEW h \in Handle, h.run \in {"succeeding", "cancelling", "failing"},
         NEW n \in Modes \ {"unborn", "forked"}, Matches(h, n, "none")
  PROVE  Matches(Written(h), n, ResultOf(Written(h)))
  <1> DEFINE k == Written(h)
  <1>1. k.run = "done" /\ k.stage = h.stage /\ k.stops = h.stops
    BY DEF Written, OnTerminal, Handle
  <1>2. CASE h.run = "succeeding"
    <2>1. k.status = h.status /\ k.latest = h.latest
      BY <1>2 DEF Written, OnTerminal, Handle
    <2> HIDE DEF k
    <2>2. QED
      BY <1>1, <1>2, <2>1 DEF Matches, Quiet, Faithful, Unended, LatestOr, ResultOf, k
  <1>3. CASE h.run \in {"cancelling", "failing"}
    <2>1. k.status \in {"cancelled", "failed"} /\ k.latest = k.status
      BY <1>3 DEF Written, OnTerminal, Handle
    <2> HIDE DEF k
    <2>2. QED
      BY <1>1, <1>3, <2>1 DEF Matches, Quiet, Faithful, Unended, LatestOr, ResultOf, k
  <1>4. QED
    BY <1>2, <1>3

\* A quiet run that has a message is a success, and stays one.
LEMMA SucceedMatches ==
  ASSUME NEW h \in Handle, NEW k, h.run \in {"streaming", "draining"},
         NEW n \in Modes \ {"unborn", "forked"}, Matches(h, n, "none"),
         k.run \in {"draining", "succeeding"}, k.stage = h.stage, k.stops = h.stops,
         \/ k.status = "succeeded" /\ k.latest = "succeeded"
         \/ h.run = "draining" /\ k.status = h.status /\ k.latest = h.latest
  PROVE  Matches(k, n, ResultOf(k))
  BY DEF Matches, Quiet, Faithful, Unended, ResultOf

-----------------------------------------------------------------------------
(* From one handle to all of them *)

\* A step of one handle and of what belongs to it.
LEMMA OneMatch ==
  ASSUME IInv, Matching, NEW a \in Agent, NEW k,
         handle' = [handle EXCEPT ![a] = k], Matches(k, mode'[a], result'[a]),
         \A b \in Agent \ {a} : mode'[b] = mode[b] /\ result'[b] = result[b]
  PROVE  Matching'
  BY DEF Matching, IInv, TypeOK

\* A step of the run, to its end or to its next await.
LEMMA RunStepMatches ==
  ASSUME IInv, Matching, NEW a \in Agent, NEW h \in Handle, RunStep(a, h),
         Matches(h, mode'[a], ResultOf(h)), mode'[a] \in Modes \ {"unborn", "forked"},
         result[a] = "none", \A b \in Agent \ {a} : mode'[b] = mode[b]
  PROVE  Matching'
  <1>1. CASE h.run = "done"
    <2>1. result' = [result EXCEPT ![a] = h.status]
      BY <1>1 DEF RunStep, RunOver
    <2>2. result'[a] = h.status /\ \A b \in Agent \ {a} : result'[b] = result[b]
      BY <2>1 DEF IInv, TypeOK
    <2>3. ResultOf(h) = h.status
      BY <1>1 DEF ResultOf
    <2>4. Matches(TeardownStart(h, "owner"), mode'[a], h.status)
      BY <1>1, <2>3, OwnerMatches
    <2>5. \/ handle' = [handle EXCEPT ![a] = TeardownStart(h, "owner")]
          \/ handle' = [handle EXCEPT ![a] = h]
      BY <1>1 DEF RunStep, RunOver
    <2>6. QED
      BY <2>2, <2>3, <2>4, <2>5, OneMatch
  <1>2. CASE h.run # "done"
    <2>1. handle' = [handle EXCEPT ![a] = h] /\ result' = result
      BY <1>2 DEF RunStep
    <2>2. ResultOf(h) = "none"
      BY <1>2 DEF ResultOf
    <2>3. QED
      BY <2>1, <2>2, OneMatch
  <1>3. QED
    BY <1>1, <1>2

\* No handle is ended before it is forked.
LEMMA InitMatching == Init => Matching
  <1>1. Matches(NewHandle, "unborn", "none")
    <2> DEFINE k == NewHandle
    <2>1. /\ k.run = "none" /\ k.status = "idle" /\ k.stops = <<>>
          /\ \A c \in Caller : k.stage[c] = "none"
      BY DEF NewHandle
    <2>2. k.stage["owner"] = "none"
      BY <2>1 DEF Caller
    <2> HIDE DEF k
    <2>3. QED
      BY <2>1, <2>2 DEF Matches, Faithful, Unended, k
  <1>2. ASSUME Init, NEW a \in Agent
        PROVE  handle[a] = NewHandle /\ mode[a] = "unborn" /\ result[a] = "none"
    <2>1. handle = [b \in Agent |-> NewHandle]
      BY <1>2 DEF Init
    <2>2. handle[a] = NewHandle
      BY <2>1, Zenon
    <2>3. mode[a] = "unborn" /\ result[a] = "none"
      BY <1>2 DEF Init
    <2>4. QED
      BY <2>2, <2>3
  <1>3. QED
    BY <1>1, <1>2 DEF Matching

\* Forking, starting and handing over a run.
LEMMA DispatchMatching ==
  ASSUME IInv, Matching, NEW a \in Agent,
         \/ Fork(a) \/ Register(a) \/ RefuseJob(a) \/ StartForeground(a)
         \/ Promote(a) \/ Adopt(a) \/ RefusePromotion(a)
  PROVE  Matching'
  <1>1. /\ handle[a] \in Handle /\ Matches(handle[a], mode[a], result[a])
        /\ mode[a] \in {"unborn", "forked"} => handle[a].run = "none"
        /\ mode \in [Agent -> Modes]
    BY DEF IInv, TypeOK, AgentInv, Matching
  <1>3. CASE Fork(a)
    <2> DEFINE k == [handle[a] EXCEPT !.abort = IF root = "live" THEN @ ELSE "cascade"]
    <2>1. /\ k.run = handle[a].run /\ k.status = handle[a].status /\ k.latest = handle[a].latest
          /\ k.stops = handle[a].stops /\ k.stage = handle[a].stage
          /\ k.reported = handle[a].reported
      BY <1>1 DEF Handle
    <2>2. handle' = [handle EXCEPT ![a] = k]
      BY <1>3 DEF Fork
    <2> HIDE DEF k
    <2>3. Matches(k, mode[a], result[a])
      BY <1>1, <2>1, SameMatches
    <2>4. /\ mode[a] = "unborn" /\ mode'[a] = "forked" /\ result' = result
          /\ \A b \in Agent \ {a} : mode'[b] = mode[b]
      BY <1>1, <1>3 DEF Fork
    <2>5. Matches(k, mode'[a], result'[a])
      BY <2>3, <2>4 DEF Matches
    <2>6. QED
      BY <2>2, <2>4, <2>5, OneMatch
  <1>4. CASE Register(a)
    <2> DEFINE h == StartRun(handle[a])
    <2>1. /\ mode[a] = "forked" /\ mode'[a] = "background"
          /\ \A b \in Agent \ {a} : mode'[b] = mode[b]
      BY <1>1, <1>4 DEF Register
    <2>2. result[a] = "none"
      BY <1>1, <2>1 DEF Matches
    <2>3. h \in Handle
      BY <1>1, <2>1, StartRunGood DEF IInv, AgentInv, Good
    <2>4. "background" \in Modes \ {"unborn", "forked"}
      BY DEF Modes
    <2>5. Matches(h, "background", ResultOf(h))
      BY <1>1, <2>1, <2>2, <2>4, StartRunMatches
    <2>6. CASE h.run = "done"
      <3>1. /\ result' = [result EXCEPT ![a] = h.status]
            /\ handle' = [handle EXCEPT ![a] = TeardownStart(h, "owner")]
        BY <1>4, <2>6 DEF Register
      <3>2. result'[a] = h.status /\ \A b \in Agent \ {a} : result'[b] = result[b]
        BY <3>1 DEF IInv, TypeOK
      <3> HIDE DEF h
      <3>3. Matches(TeardownStart(h, "owner"), "background", h.status)
        BY <2>3, <2>4, <2>5, <2>6, OwnerMatches DEF ResultOf
      <3>4. QED
        BY <2>1, <3>1, <3>2, <3>3, OneMatch
    <2>7. CASE h.run # "done"
      <3>1. result' = result /\ handle' = [handle EXCEPT ![a] = h]
        BY <1>4, <2>7 DEF Register
      <3> HIDE DEF h
      <3>2. QED
        BY <2>1, <2>2, <2>5, <2>7, <3>1, OneMatch DEF ResultOf
    <2>8. QED
      BY <2>6, <2>7
  <1>5. CASE RefuseJob(a)
    <2>1. /\ mode[a] = "forked" /\ mode'[a] = "rejected" /\ result' = result
          /\ \A b \in Agent \ {a} : mode'[b] = mode[b]
          /\ handle' = [handle EXCEPT ![a] = TeardownStart(handle[a], "owner")]
      BY <1>1, <1>5 DEF RefuseJob
    <2>2. "rejected" \in Modes \ {"unborn", "forked"}
      BY DEF Modes
    <2>3. Matches(TeardownStart(handle[a], "owner"), "rejected", result[a])
      BY <1>1, <2>1, <2>2, OwnerMatches
    <2>4. QED
      BY <2>1, <2>3, OneMatch
  <1>6. CASE StartForeground(a)
    <2> DEFINE h == StartRun(handle[a])
    <2>1. /\ mode[a] = "forked" /\ mode'[a] = "foreground" /\ RunStep(a, h)
          /\ \A b \in Agent \ {a} : mode'[b] = mode[b]
      BY <1>1, <1>6 DEF StartForeground
    <2>2. result[a] = "none"
      BY <1>1, <2>1 DEF Matches
    <2>3. h \in Handle
      BY <1>1, <2>1, StartRunGood DEF IInv, AgentInv, Good
    <2>4. "foreground" \in Modes \ {"unborn", "forked"}
      BY DEF Modes
    <2>5. Matches(h, "foreground", ResultOf(h))
      BY <1>1, <2>1, <2>2, <2>4, StartRunMatches
    <2> HIDE DEF h
    <2>6. QED
      BY <2>1, <2>2, <2>3, <2>4, <2>5, RunStepMatches
  <1>7. CASE Promote(a) \/ RefusePromotion(a)
    <2>1. /\ mode[a] \notin {"unborn", "forked"} /\ mode'[a] \notin {"unborn", "forked"}
          /\ \A b \in Agent \ {a} : mode'[b] = mode[b]
          /\ handle' = handle /\ result' = result
      BY <1>1, <1>7 DEF Promote, RefusePromotion
    <2>2. QED
      BY <2>1 DEF Matching, Matches
  <1>8. CASE Adopt(a)
    <2>1. /\ mode'[a] = "promoted" /\ result' = result /\ mode[a] = "promoting"
          /\ \A b \in Agent \ {a} : mode'[b] = mode[b]
      BY <1>1, <1>8 DEF Adopt
    <2>2. "promoted" \in Modes \ {"unborn", "forked"}
      BY DEF Modes
    <2>3. CASE result[a] = "none"
      <3>1. handle' = handle
        BY <1>8, <2>3 DEF Adopt
      <3>2. QED
        BY <2>1, <3>1 DEF Matching, Matches
    <2>4. CASE result[a] # "none"
      <3>1. handle' = [handle EXCEPT ![a] = TeardownStart(handle[a], "owner")]
        BY <1>8, <2>4 DEF Adopt
      <3>2. handle[a].run = "done"
        BY <1>1, <2>4 DEF Matches
      <3>3. Matches(TeardownStart(handle[a], "owner"), "promoted", result[a])
        BY <1>1, <2>2, <3>2, OwnerMatches
      <3>4. QED
        BY <2>1, <3>1, <3>3, OneMatch
    <2>5. QED
      BY <2>3, <2>4
  <1>9. QED
    BY <1>3, <1>4, <1>5, <1>6, <1>7, <1>8

\* The run, its turns, its timers and its retry.
LEMMA RunMatching ==
  ASSUME IInv, Matching, NEW a \in Agent,
         \/ StreamReturns(a) \/ DrainReturns(a) \/ StreamThrows(a) \/ ModelRejected(a)
         \/ FallbackStarts(a) \/ TimesOut(a) \/ IdleFires(a) \/ RowWritten(a)
  PROVE  Matching'
  <1>1. /\ handle[a] \in Handle /\ Good(handle[a]) /\ Matches(handle[a], mode[a], result[a])
        /\ mode[a] \in {"unborn", "forked"} => handle[a].run = "none"
        /\ mode \in [Agent -> Modes]
    BY DEF IInv, TypeOK, AgentInv, Matching
  <1>2. handle[a].run # "done" => result[a] = "none"
    BY <1>1 DEF Matches
  <1>3. handle[a].run # "none" => mode[a] \in Modes \ {"unborn", "forked"}
    BY <1>1
  <1>4. \A h \in Handle :
          /\ RunStep(a, h) /\ mode' = mode /\ handle[a].run \notin {"none", "done"}
          /\ Matches(h, mode[a], ResultOf(h))
          => Matching'
    BY <1>2, <1>3, RunStepMatches
  <1>5. CASE StreamReturns(a)
    <2> DEFINE h == [handle[a] EXCEPT !.status = "succeeded", !.latest = "succeeded"]
               drained == NewTrace([h EXCEPT !.run = "draining"])
               row == [h EXCEPT !.run = "succeeding", !.rows = @ \cup {"succeeded"}]
    <2>1. /\ RunStep(a, drained) \/ RunStep(a, row)
          /\ handle[a].run = "streaming" /\ mode' = mode
      BY <1>5 DEF StreamReturns
    <2>2. Good(h) /\ h.run = "streaming" /\ h.status = "succeeded"
      BY <1>1, <2>1, SucceedGood
    <2>3. drained \in Handle /\ row \in Handle
      <3> HIDE DEF h
      <3>1. Good(drained) /\ Good(row)
        BY <2>2, DrainGood, RowGood
      <3>2. QED
        BY <3>1 DEF Good
    <2>4. /\ drained.run = "draining" /\ row.run = "succeeding"
          /\ drained.stage = handle[a].stage /\ row.stage = handle[a].stage
          /\ drained.stops = handle[a].stops /\ row.stops = handle[a].stops
          /\ drained.status = "succeeded" /\ drained.latest = "succeeded"
          /\ row.status = "succeeded" /\ row.latest = "succeeded"
      BY <1>1 DEF NewTrace, Handle
    <2> HIDE DEF drained, row
    <2>5. /\ Matches(drained, mode[a], ResultOf(drained))
          /\ Matches(row, mode[a], ResultOf(row))
      BY <1>1, <1>2, <1>3, <2>1, <2>4, SucceedMatches
    <2>6. QED
      BY <1>4, <2>1, <2>3, <2>5
  <1>6. CASE DrainReturns(a)
    <2> DEFINE h == handle[a]
               drained == NewTrace(h)
               row == [h EXCEPT !.run = "succeeding", !.rows = @ \cup {"succeeded"}]
    <2>1. /\ RunStep(a, drained) \/ RunStep(a, row)
          /\ h.run = "draining" /\ mode' = mode
      BY <1>6 DEF DrainReturns
    <2>2. h.status \in {"succeeded", "cancelled"}
      BY <1>1, <2>1 DEF Good, Logged
    <2>3. drained \in Handle /\ row \in Handle
      <3>1. Good(drained) /\ Good(row)
        BY <1>1, <2>1, <2>2, NewTraceGood, RowGood
      <3>2. QED
        BY <3>1 DEF Good
    <2>4. /\ drained.run = "draining" /\ row.run = "succeeding"
          /\ drained.stage = h.stage /\ row.stage = h.stage
          /\ drained.stops = h.stops /\ row.stops = h.stops
          /\ drained.status = h.status /\ drained.latest = h.latest
          /\ row.status = h.status /\ row.latest = h.latest
      BY <1>1, <2>1 DEF NewTrace, Handle
    <2> HIDE DEF drained, row
    <2>5. /\ Matches(drained, mode[a], ResultOf(drained))
          /\ Matches(row, mode[a], ResultOf(row))
      BY <1>1, <1>2, <1>3, <2>1, <2>4, SucceedMatches
    <2>6. QED
      BY <1>4, <2>1, <2>3, <2>5
  <1>7. CASE StreamThrows(a)
    <2> DEFINE k == Catch(handle[a], a \in active)
    <2>1. RunStep(a, k) /\ handle[a].run = "streaming" /\ mode' = mode
      BY <1>7 DEF StreamThrows
    <2>2. k \in Handle
      BY <1>1, <2>1, CatchGood DEF Good
    <2>3. Matches(k, mode[a], ResultOf(k))
      BY <1>1, <1>2, <1>3, <2>1, CatchMatches
    <2> HIDE DEF k
    <2>4. QED
      BY <1>4, <2>1, <2>2, <2>3
  <1>8. CASE TimesOut(a)
    <2> DEFINE h == [handle[a] EXCEPT !.abort = IF @ = "none" THEN "own" ELSE @]
               k == Catch(h, a \in active)
    <2>1. RunStep(a, k) /\ handle[a].run = "streaming" /\ mode' = mode
      BY <1>8 DEF TimesOut
    <2>2. /\ h.run = handle[a].run /\ h.status = handle[a].status /\ h.latest = handle[a].latest
          /\ h.stops = handle[a].stops /\ h.stage = handle[a].stage
          /\ h.reported = handle[a].reported
      BY <1>1 DEF Handle
    <2>3. Good(h)
      <3> DEFINE x == IF handle[a].abort = "none" THEN "own" ELSE handle[a].abort
      <3>1. x \in {"none", "own", "cascade", "inherited", "cancel"}
        BY <1>1 DEF Handle
      <3>2. h = [handle[a] EXCEPT !.abort = x]
        OBVIOUS
      <3> HIDE DEF x, h
      <3>3. QED
        BY <1>1, <3>1, <3>2, AbortGood
    <2> HIDE DEF h
    <2>4. Matches(h, mode[a], "none")
      BY <1>1, <1>2, <2>1, <2>2, SameMatches
    <2>5. h \in Handle /\ k \in Handle
      BY <2>1, <2>2, <2>3, CatchGood DEF Good
    <2>6. Matches(k, mode[a], ResultOf(k))
      BY <1>3, <2>1, <2>2, <2>4, <2>5, CatchMatches
    <2> HIDE DEF k
    <2>7. QED
      BY <1>4, <2>1, <2>5, <2>6
  <1>9. CASE RowWritten(a)
    <2> DEFINE k == Written(handle[a])
    <2>1. /\ RunStep(a, k) /\ mode' = mode
          /\ handle[a].run \in {"succeeding", "cancelling", "failing"}
      BY <1>9 DEF RowWritten
    <2>2. k \in Handle
      BY <1>1, <2>1, WrittenGood DEF Good
    <2>3. Matches(k, mode[a], ResultOf(k))
      BY <1>1, <1>2, <1>3, <2>1, WrittenMatches
    <2> HIDE DEF k
    <2>4. QED
      BY <1>4, <2>1, <2>2, <2>3
  <1>10. CASE ModelRejected(a) \/ FallbackStarts(a) \/ IdleFires(a)
    <2>1. PICK k : /\ handle' = [handle EXCEPT ![a] = k]
                   /\ \/ k = [handle[a] EXCEPT !.retry = "pending"]
                      \/ k = NewTrace([handle[a] EXCEPT !.retry = "used", !.session = 2])
                      \/ k = [handle[a] EXCEPT !.abort = "own"]
      BY <1>10 DEF ModelRejected, FallbackStarts, IdleFires
    <2>2. /\ k.run = handle[a].run /\ k.status = handle[a].status /\ k.latest = handle[a].latest
          /\ k.stops = handle[a].stops /\ k.stage = handle[a].stage
          /\ k.reported = handle[a].reported
      BY <1>1, <2>1 DEF NewTrace, Handle
    <2>3. mode' = mode /\ result' = result
      BY <1>10 DEF ModelRejected, FallbackStarts, IdleFires
    <2>4. Matches(k, mode[a], result[a])
      BY <1>1, <2>2, SameMatches
    <2>5. QED
      BY <2>1, <2>3, <2>4, OneMatch
  <1>11. QED
    BY <1>5, <1>6, <1>7, <1>8, <1>9, <1>10

\* Ending a handle: only its owner's stop is looked at.
LEMMA EndMatching ==
  ASSUME IInv, Matching, NEW a \in Agent, NEW c \in Caller,
         \/ Interrupted(a, c) \/ Closed(a, c) \/ HookReturns(a, c)
         \/ CancelByUser(a) \/ ForegroundEnds(a) \/ Release(a)
  PROVE  Matching'
  <1>1. /\ handle[a] \in Handle /\ Good(handle[a]) /\ Matches(handle[a], mode[a], result[a])
        /\ mode \in [Agent -> Modes]
    BY DEF IInv, TypeOK, AgentInv, Matching
  <1>2. CASE Interrupted(a, c)
    <2> DEFINE k == [handle[a] EXCEPT !.stage[c] = "close"]
    <2>1. /\ handle[a].stage[c] = "interrupt" /\ handle' = [handle EXCEPT ![a] = k]
          /\ mode' = mode /\ result' = result
      BY <1>2 DEF Interrupted
    <2>2. /\ k.run = handle[a].run /\ k.status = handle[a].status /\ k.latest = handle[a].latest
          /\ k.stops = handle[a].stops /\ k.reported = handle[a].reported
          /\ \A d \in Caller : k.stage[d] = IF d = c THEN "close" ELSE handle[a].stage[d]
      BY <1>1 DEF Handle
    <2> HIDE DEF k
    <2>3. Matches(k, mode[a], result[a])
      BY <1>1, <2>1, <2>2 DEF Matches, Quiet, Faithful, Unended, LatestOr, Caller
    <2>4. QED
      BY <2>1, <2>3, OneMatch
  <1>3. CASE Closed(a, c)
    <2>1. handle[a].stage[c] = "close" /\ mode' = mode /\ result' = result
      BY <1>3 DEF Closed
    <2>2. CASE handle[a].stops = <<>>
      <3> DEFINE k == [handle[a] EXCEPT !.stops = Append(@, handle[a].reported[c]), !.stage[c] = "hook"]
      <3>1. handle' = [handle EXCEPT ![a] = k]
        BY <1>3, <2>2 DEF Closed
      <3>2. /\ k.run = handle[a].run /\ k.status = handle[a].status /\ k.latest = handle[a].latest
            /\ k.reported = handle[a].reported
            /\ \A d \in Caller : k.stage[d] = IF d = c THEN "hook" ELSE handle[a].stage[d]
            /\ k.stops = <<handle[a].reported[c]>>
        BY <1>1, <2>2 DEF Handle
      <3>3. Len(k.stops) = 1 /\ k.stops[1] = handle[a].reported[c]
        <4> HIDE DEF k
        <4>1. QED
          BY <3>2
      <3> HIDE DEF k
      <3>4. c # "owner" => ~Quiet(k)
        BY <3>2 DEF Quiet
      <3>5. ASSUME c = "owner", Quiet(k) PROVE Matches(k, mode[a], result[a])
        <4>1. Quiet(handle[a])
          BY <3>2, <3>5 DEF Quiet
        <4>2. Faithful(handle[a]) /\ ~Unended(handle[a])
          BY <1>1, <2>1, <3>5, <4>1 DEF Matches, Unended
        <4>3. Faithful(k)
          BY <2>1, <3>2, <3>3, <3>5, <4>2 DEF Faithful, LatestOr
        <4>4. QED
          BY <1>1, <3>2, <4>1, <4>2, <4>3 DEF Matches
      <3>6. Matches(k, mode[a], result[a])
        BY <1>1, <3>2, <3>4, <3>5 DEF Matches
      <3>7. QED
        BY <2>1, <3>1, <3>6, OneMatch
    <2>3. CASE handle[a].stops # <<>>
      <3> DEFINE k == [handle[a] EXCEPT !.stage[c] = "returned"]
      <3>1. handle' = [handle EXCEPT ![a] = OnTerminal(k)]
        BY <1>3, <2>3 DEF Closed
      <3>2. /\ k.run = handle[a].run /\ k.status = handle[a].status /\ k.latest = handle[a].latest
            /\ k.stops = handle[a].stops /\ k.reported = handle[a].reported
            /\ \A d \in Caller : k.stage[d] = IF d = c THEN "returned" ELSE handle[a].stage[d]
            /\ k \in Handle
        BY <1>1 DEF Handle, Stage
      <3> HIDE DEF k
      <3>3. Matches(k, mode[a], result[a])
        BY <1>1, <2>1, <2>3, <3>2 DEF Matches, Quiet, Faithful, Unended, LatestOr, Caller
      <3>4. QED
        BY <2>1, <3>1, <3>2, <3>3, OnTerminalMatches, OneMatch
    <2>4. QED
      BY <2>2, <2>3
  <1>4. CASE HookReturns(a, c)
    <2> DEFINE k == [handle[a] EXCEPT !.stage[c] = "returned"]
    <2>1. /\ handle[a].stage[c] = "hook" /\ handle' = [handle EXCEPT ![a] = OnTerminal(k)]
          /\ mode' = mode /\ result' = result
      BY <1>4 DEF HookReturns
    <2>2. /\ k.run = handle[a].run /\ k.status = handle[a].status /\ k.latest = handle[a].latest
          /\ k.stops = handle[a].stops /\ k.reported = handle[a].reported
          /\ \A d \in Caller : k.stage[d] = IF d = c THEN "returned" ELSE handle[a].stage[d]
          /\ k \in Handle
      BY <1>1 DEF Handle, Stage
    <2> HIDE DEF k
    <2>3. Matches(k, mode[a], result[a])
      BY <1>1, <2>1, <2>2 DEF Matches, Quiet, Faithful, Unended, LatestOr, Caller
    <2>4. QED
      BY <2>1, <2>2, <2>3, OnTerminalMatches, OneMatch
  <1>5. CASE CancelByUser(a)
    <2>1. /\ handle' = [handle EXCEPT ![a] = CancelStart(handle[a], "user", a \in active)]
          /\ mode' = mode /\ result' = result
      BY <1>5 DEF CancelByUser
    <2>2. "user" \in Caller \ {"owner"}
      BY DEF Caller
    <2>3. QED
      BY <1>1, <2>1, <2>2, CancelMatches, OneMatch
  <1>6. CASE ForegroundEnds(a)
    <2>1. /\ handle' = [handle EXCEPT ![a] = TeardownStart(handle[a], "owner")]
          /\ mode' = mode /\ result' = result /\ result[a] # "none"
          /\ mode[a] \in Modes \ {"unborn", "forked"}
      BY <1>1, <1>6 DEF ForegroundEnds, Modes
    <2>2. handle[a].run = "done"
      BY <1>1, <2>1 DEF Matches
    <2>3. QED
      BY <1>1, <2>1, <2>2, OwnerMatches, OneMatch
  <1>7. CASE Release(a)
    BY <1>7 DEF Release, Matching
  <1>8. QED
    BY <1>2, <1>3, <1>4, <1>5, <1>6, <1>7

\* The registry and the manager only cancel, abort and tear down.
LEMMA FleetMatching ==
  ASSUME IInv, Matching,
         \/ SweepBegins \/ SweepDrains \/ SweepSettles \/ SweepTimesOut
         \/ ParentAborts \/ DrainBegins \/ DrainEnds \/ TeardownAll
  PROVE  Matching'
  <1>1. \A a \in Agent : Good(handle[a]) /\ Matches(handle[a], mode[a], result[a])
    BY DEF IInv, AgentInv, Matching
  <1>2. {"registry", "manager"} \subseteq Caller \ {"owner"}
    BY DEF Caller
  <1>3. mode' = mode /\ result' = result
    BY DEF SweepBegins, SweepDrains, SweepSettles, SweepTimesOut, ParentAborts, DrainBegins,
           DrainEnds, TeardownAll
  <1>4. CASE SweepBegins
    <2>1. \A a \in Agent : \/ handle'[a] = CancelStart(handle[a], "registry", a \in active)
                           \/ handle'[a] = handle[a]
      BY <1>4 DEF SweepBegins
    <2>2. QED
      BY <1>1, <1>2, <1>3, <2>1, CancelMatches DEF Matching
  <1>5. CASE SweepDrains \/ SweepSettles \/ SweepTimesOut \/ DrainEnds
    <2>1. handle' = handle
      BY <1>5 DEF SweepDrains, SweepSettles, SweepTimesOut, DrainEnds
    <2>2. QED
      BY <1>3, <2>1 DEF Matching
  <1>6. CASE ParentAborts
    <2>1. \A a \in Agent : \/ \E why \in {"cascade", "inherited"} :
                                handle'[a] = [handle[a] EXCEPT !.abort = why]
                           \/ handle'[a] = handle[a]
      BY <1>6 DEF ParentAborts
    <2>2. ASSUME NEW a \in Agent, NEW why \in {"cascade", "inherited"}
          PROVE  Matches([handle[a] EXCEPT !.abort = why], mode[a], result[a])
      <3> DEFINE k == [handle[a] EXCEPT !.abort = why]
      <3>1. /\ k.run = handle[a].run /\ k.status = handle[a].status /\ k.latest = handle[a].latest
            /\ k.stops = handle[a].stops /\ k.stage = handle[a].stage
            /\ k.reported = handle[a].reported
        BY <1>1 DEF Handle, Good
      <3> HIDE DEF k
      <3>2. QED
        BY <1>1, <3>1, SameMatches DEF k
    <2>3. QED
      BY <1>1, <1>3, <2>1, <2>2 DEF Matching
  <1>7. CASE DrainBegins
    <2>1. \A a \in Agent : \/ handle'[a] = CancelStart(Cascade(handle[a]), "manager", TRUE)
                           \/ handle'[a] = handle[a]
      BY <1>7 DEF DrainBegins
    <2>2. ASSUME NEW a \in Agent
          PROVE  Matches(CancelStart(Cascade(handle[a]), "manager", TRUE), mode[a], result[a])
      <3> DEFINE k == Cascade(handle[a])
      <3>1. /\ k.run = handle[a].run /\ k.status = handle[a].status /\ k.latest = handle[a].latest
            /\ k.stops = handle[a].stops /\ k.stage = handle[a].stage
            /\ k.reported = handle[a].reported
        BY <1>1 DEF Cascade, Handle, Good
      <3>2. Good(k)
        BY <1>1, CascadeGood
      <3> HIDE DEF k
      <3>3. Matches(k, mode[a], result[a])
        BY <1>1, <3>1, SameMatches
      <3>4. QED
        BY <1>2, <3>2, <3>3, CancelMatches DEF k
    <2>3. QED
      BY <1>1, <1>3, <2>1, <2>2 DEF Matching
  <1>8. CASE TeardownAll
    <2>1. \A a \in Agent : \/ handle'[a] = TeardownStart(handle[a], "manager")
                           \/ handle'[a] = handle[a]
      BY <1>8 DEF TeardownAll
    <2>2. QED
      BY <1>1, <1>2, <1>3, <2>1, TeardownMatches DEF Matching
  <1>9. QED
    BY <1>4, <1>5, <1>6, <1>7, <1>8

\* Every step keeps it.
LEMMA NextMatching == IInv /\ Matching /\ [Next]_vars => Matching'
  <1> SUFFICES ASSUME IInv, Matching, [Next]_vars PROVE Matching'
    OBVIOUS
  <1>1. CASE UNCHANGED vars
    BY <1>1 DEF vars, Matching
  <1>2. CASE \E a \in Agent : \/ Fork(a) \/ Register(a) \/ RefuseJob(a) \/ StartForeground(a)
                              \/ Promote(a) \/ Adopt(a) \/ RefusePromotion(a)
    BY <1>2, DispatchMatching
  <1>3. CASE \E a \in Agent : \/ StreamReturns(a) \/ DrainReturns(a) \/ StreamThrows(a)
                              \/ ModelRejected(a) \/ FallbackStarts(a) \/ TimesOut(a)
                              \/ IdleFires(a) \/ RowWritten(a)
    BY <1>3, RunMatching
  <1>4. CASE \E a \in Agent, c \in Caller :
                 \/ Interrupted(a, c) \/ Closed(a, c) \/ HookReturns(a, c)
                 \/ CancelByUser(a) \/ ForegroundEnds(a) \/ Release(a)
    BY <1>4, EndMatching
  <1>5. CASE \/ SweepBegins \/ SweepDrains \/ SweepSettles \/ SweepTimesOut
             \/ ParentAborts \/ DrainBegins \/ DrainEnds \/ TeardownAll
    BY <1>5, FleetMatching
  <1>6. "user" \in Caller
    BY DEF Caller
  <1>7. QED
    BY <1>1, <1>2, <1>3, <1>4, <1>5, <1>6 DEF Next

\* When nobody but its owner ends a handle, SubagentStop carries the status of the
\* result the caller was given (latestTerminalStatus, LatestOr).
THEOREM StopCarriesResult == Spec => []StopMatchesResult
  <1>1. Matching => StopMatchesResult
    BY DEF Matching, Matches, Quiet, Faithful, StopMatchesResult
  <1>2. QED
    BY <1>1, NextMatching, InitMatching, Invariant, PTL DEF Spec

-----------------------------------------------------------------------------
(* The contract of SubagentContract *)

\* The job, the owner and the handle fit: a job is one of the two modes and over with
\* its run, the owner ends a handle when there is a result or never will be, and is back
\* from that only once the stop was dispatched.
JobOK(h, m, j, r) ==
  /\ m \notin {"background", "promoted"} => j = "none"
  /\ j \notin {"none", "running"} => h.run = "done"
  /\ h.stage["owner"] # "none" => j # "running" /\ (r # "none" \/ m = "rejected")
  /\ h.stage["owner"] = "returned" => h.stops # <<>>
  /\ m = "unborn" => h = NewHandle

Jobs == \A a \in Agent : JobOK(handle[a], mode[a], job[a], result[a])
Contracted == IInv /\ Matching /\ Jobs

\* Nobody else takes back that he has begun to end the handle; the owner neither begins
\* nor comes back before the stop.
OthersStay(h, k) == \A c \in Caller \ {"owner"} : k.stage[c] = "none" => h.stage[c] = "none"
OthersSame(h, k) == \A c \in Caller \ {"owner"} : k.stage[c] = "none" <=> h.stage[c] = "none"
OwnerGoesOn(h, k) ==
  /\ k.stage["owner"] = "none" <=> h.stage["owner"] = "none"
  /\ k.stage["owner"] = "returned" => h.stage["owner"] = "returned" \/ k.stops # <<>>

\* What may have become of a handle that is not ended for good in this step.
Kept(h, k) ==
  /\ k \in Handle /\ k.stops = h.stops /\ h.rows \subseteq k.rows
  /\ OthersStay(h, k) /\ OwnerGoesOn(h, k)
  /\ h.run = "done" => k.run = "done"

\* Only its run moves, or who aborted it.
RunMoves(h, k) ==
  k \in Handle /\ k.stops = h.stops /\ k.stage = h.stage /\ h.rows \subseteq k.rows

\* The kinds of steps an agent's watchers can tell apart.
Bystander(b) == UNCHANGED <<job[b], result[b], released[b]>> /\ (b \in active' <=> b \in active)

Still(b) ==
  /\ Bystander(b)
  /\ \/ mode'[b] = mode[b]
     \/ /\ mode[b] \in {"forked", "foreground", "promoting"}
        /\ mode'[b] \in {"foreground", "promoting", "refused"}
  /\ Kept(handle[b], handle'[b])
  /\ mode[b] = "unborn" => handle'[b] = handle[b]

IsForked(b) ==
  /\ mode[b] = "unborn" /\ mode'[b] = "forked" /\ b \in active'
  /\ UNCHANGED <<job[b], result[b], released[b]>>
  /\ RunMoves(handle[b], handle'[b]) /\ handle'[b].rows = handle[b].rows

IsEnlisted(b) ==
  /\ mode[b] \in {"forked", "promoting"} /\ mode'[b] \in {"background", "promoted"}
  /\ result[b] = "none" /\ job'[b] = "running"
  /\ UNCHANGED <<result[b], released[b]>> /\ (b \in active' <=> b \in active)
  /\ RunMoves(handle[b], handle'[b]) /\ handle'[b].rows = handle[b].rows

IsResolved(b) ==
  /\ mode[b] # "unborn" /\ result[b] = "none" /\ released'[b] = released[b]
  /\ handle'[b] \in Handle /\ handle'[b].run = "done" /\ handle'[b].status \in handle'[b].rows
  /\ result'[b] = handle'[b].status
  /\ handle'[b].rows = handle[b].rows /\ handle'[b].stops = handle[b].stops
  /\ OthersSame(handle[b], handle'[b])
  /\ handle'[b].stage["owner"] = "returned" => handle'[b].stops # <<>>
  /\ b \in active' => b \in active
  /\ \/ /\ job[b] = "none" /\ job'[b] = "none"
        /\ mode'[b] \in Modes \ {"unborn"}
     \/ job'[b] = JobStatus(result'[b]) /\ job[b] = "running" /\ mode'[b] = mode[b]
     \/ job'[b] = JobStatus(result'[b]) /\ mode[b] = "forked" /\ mode'[b] = "background"

\* The owner begins to end it, and may enter a job that is over already.
IsEndedByOwner(b) ==
  /\ UNCHANGED <<result[b], released[b]>> /\ (b \in active' <=> b \in active)
  /\ handle'[b] = TeardownStart(handle[b], "owner")
  /\ \/ mode[b] = "forked" /\ mode'[b] = "rejected" /\ job'[b] = job[b]
     \/ /\ mode[b] \in {"foreground", "refused"} /\ mode'[b] = mode[b]
        /\ job'[b] = job[b] /\ result[b] # "none"
     \/ /\ mode[b] = "promoting" /\ mode'[b] = "promoted" /\ result[b] # "none"
        /\ job'[b] = JobStatus(result[b])

IsAnnounced(b) ==
  /\ Bystander(b) /\ mode'[b] = mode[b] /\ mode[b] # "unborn"
  /\ handle'[b] \in Handle /\ handle'[b].rows = handle[b].rows /\ handle'[b].run = handle[b].run
  /\ handle[b].stops = <<>> /\ \E s \in Terminal : handle'[b].stops = <<s>>
  /\ OthersSame(handle[b], handle'[b]) /\ OwnerGoesOn(handle[b], handle'[b])

IsForgotten(b) ==
  /\ UNCHANGED <<job[b], result[b], released[b], mode[b]>> /\ b \notin active'
  /\ handle'[b] \in Handle /\ handle'[b].rows = handle[b].rows /\ handle'[b].run = handle[b].run
  /\ handle[b].stops # <<>> /\ handle'[b].stops = handle[b].stops
  /\ OthersSame(handle[b], handle'[b]) /\ OwnerGoesOn(handle[b], handle'[b])
  /\ mode[b] # "unborn"

IsFreed(b) ==
  /\ UNCHANGED <<job[b], result[b], mode[b], handle[b]>> /\ (b \in active' <=> b \in active)
  /\ handle[b].stage["owner"] = "returned"
  /\ released[b] = 0 /\ released'[b] = 1

Effect(b) ==
  \/ Still(b) \/ IsForked(b) \/ IsEnlisted(b) \/ IsResolved(b) \/ IsEndedByOwner(b)
  \/ IsAnnounced(b) \/ IsForgotten(b) \/ IsFreed(b)

\* The owner's teardown: the stop is still to come, or it has been dispatched.
LEMMA OwnerTearsDown ==
  ASSUME NEW h, Good(h)
  PROVE  LET k == TeardownStart(h, "owner")
         IN  /\ k \in Handle /\ k.rows = h.rows /\ k.stops = h.stops
             /\ k.run = h.run /\ k.status = h.status /\ OthersSame(h, k)
             /\ k.stage["owner"] # "none"
             /\ k.stage["owner"] = "returned" => k.stops # <<>>
  <1> DEFINE k == TeardownStart(h, "owner")
  <1>1. "owner" \in Caller /\ h \in Handle
    BY DEF Caller, Good
  <1>2. k \in Handle
    BY <1>1, TeardownGood DEF Good
  <1>3. CASE h.stops # <<>>
    BY <1>1, <1>2, <1>3 DEF TeardownStart, Handle, OthersSame
  <1>4. CASE h.stops = <<>>
    BY <1>1, <1>2, <1>4 DEF TeardownStart, StartClose, InFlight, Handle, OthersSame
  <1>5. QED
    BY <1>3, <1>4

\* Each kind of step keeps the job, the owner and the handle fitting.
LEMMA EffectJobs ==
  ASSUME Contracted, IInv', NEW b \in Agent, Effect(b)
  PROVE  JobOK(handle'[b], mode'[b], job'[b], result'[b])
  <1>1. /\ JobOK(handle[b], mode[b], job[b], result[b]) /\ Good(handle[b])
        /\ handle[b] \in Handle
        /\ mode[b] = "forked" => handle[b].run = "none"
        /\ result[b] # "none" => handle[b].run = "done"
        /\ mode[b] \in Modes /\ mode'[b] \in Modes
    BY DEF Contracted, Jobs, IInv, TypeOK, AgentInv, Matching, Matches
  <1>2. CASE Still(b)
    BY <1>1, <1>2 DEF Still, Kept, Bystander, OwnerGoesOn, JobOK
  <1>3. CASE IsForked(b)
    BY <1>1, <1>3 DEF IsForked, RunMoves, JobOK, NewHandle, Caller
  <1>4. CASE IsEnlisted(b)
    BY <1>1, <1>4 DEF IsEnlisted, RunMoves, JobOK
  <1>5. CASE IsResolved(b)
    BY <1>1, <1>5 DEF IsResolved, JobOK, JobStatus, Handle, Terminal
  <1>6. CASE IsEndedByOwner(b)
    BY <1>1, <1>6, OwnerTearsDown DEF IsEndedByOwner, JobOK, JobStatus
  <1>7. CASE IsAnnounced(b)
    BY <1>1, <1>7 DEF IsAnnounced, Bystander, OwnerGoesOn, JobOK
  <1>8. CASE IsForgotten(b)
    BY <1>1, <1>8 DEF IsForgotten, OwnerGoesOn, JobOK
  <1>9. CASE IsFreed(b)
    BY <1>1, <1>9 DEF IsFreed, JobOK
  <1>10. QED
    BY <1>2, <1>3, <1>4, <1>5, <1>6, <1>7, <1>8, <1>9 DEF Effect

\* Each kind of step is one the contract allows.
LEMMA EffectContract ==
  ASSUME Contracted, Contracted', NEW b \in Agent, Effect(b)
  PROVE  C(b)!Next \/ UNCHANGED C(b)!vars
  <1>1. /\ JobOK(handle[b], mode[b], job[b], result[b]) /\ Good(handle[b])
        /\ handle[b] \in Handle /\ Matches(handle[b], mode[b], result[b])
        /\ mode[b] = "forked" => handle[b].run = "none"
        /\ mode[b] \in Modes
    BY DEF Contracted, Jobs, IInv, TypeOK, AgentInv, Matching
  <1>2. /\ Good(handle'[b]) /\ handle'[b] \in Handle
        /\ Matches(handle'[b], mode'[b], result'[b])
    BY DEF Contracted, IInv, TypeOK, AgentInv, Matching
  <1>3. CASE Still(b)
    <2>1. CASE mode[b] = "unborn"
      BY <1>1, <1>3, <2>1 DEF Still, Bystander, C!vars
    <2>2. CASE mode[b] # "unborn"
      <3>1. Quiet(handle'[b]) => Quiet(handle[b])
        BY <1>3 DEF Still, Kept, OthersStay, Quiet
      <3>2. handle[b].rows \subseteq handle'[b].rows /\ handle'[b].rows \subseteq C(b)!Terminal
        BY <1>2, <1>3 DEF Still, Kept, Handle, Terminal, C!Terminal
      <3>3. C(b)!Log
        BY <1>3, <2>2, <3>1, <3>2 DEF Still, Kept, Bystander, C!Log, Quiet
      <3>4. QED
        BY <3>3 DEF C!Next
    <2>3. QED
      BY <2>1, <2>2
  <1>4. CASE IsForked(b)
    <2>1. Quiet(handle'[b]) = Quiet(handle[b])
      BY <1>4 DEF IsForked, RunMoves, Quiet
    <2>2. mode'[b] # "unborn" /\ b \in active' /\ mode[b] = "unborn"
      BY <1>4 DEF IsForked
    <2>3. (mode'[b] # "unborn") = TRUE /\ (b \in active') = TRUE
      BY <2>2
    <2>4. UNCHANGED <<handle[b].rows, result[b], job[b], handle[b].stops, released[b]>>
      BY <1>4 DEF IsForked, RunMoves
    <2>5. C(b)!Fork
      BY <2>1, <2>2, <2>3, <2>4 DEF C!Fork
    <2>6. QED
      BY <2>5 DEF C!Next
  <1>5. CASE IsEnlisted(b)
    <2>1. C(b)!Enlist
      BY <1>1, <1>5 DEF IsEnlisted, RunMoves, JobOK, C!Enlist, Quiet
    <2>2. QED
      BY <2>1 DEF C!Next
  <1>6. CASE IsResolved(b)
    <2> DEFINE s == handle'[b].status
    <2>1. s \in C(b)!Terminal /\ s \in handle[b].rows /\ result'[b] = s
      BY <1>1, <1>6 DEF IsResolved, Handle, Terminal, C!Terminal
    <2>2. Quiet(handle'[b]) = Quiet(handle[b])
      BY <1>6 DEF IsResolved, OthersSame, Quiet
    <2>3. ASSUME Quiet(handle[b]), handle[b].stops # <<>> PROVE handle[b].stops[1] = s
      <3>1. Faithful(handle'[b]) /\ handle'[b].run = "done" /\ handle'[b].stops = handle[b].stops
        BY <1>2, <1>6, <2>2, <2>3 DEF IsResolved, Matches
      <3>2. 1 \in 1..Len(handle[b].stops)
        BY <1>1, <2>3 DEF Handle
      <3>3. QED
        BY <3>1, <3>2 DEF Faithful
    <2>4. job'[b] = C(b)!JobOf(s) \/ (job[b] = "none" /\ job'[b] = job[b])
      BY <1>6, <2>1 DEF IsResolved, JobStatus, C!JobOf, C!Terminal
    <2>5. (b \in active') \in {(b \in active), FALSE}
      <3>1. b \in active' => b \in active
        BY <1>6 DEF IsResolved
      <3>2. CASE b \in active'
        <4>1. (b \in active') = (b \in active)
          BY <3>1, <3>2
        <4>2. QED
          BY <4>1, Zenon
      <3>3. CASE b \notin active'
        <4>1. (b \in active') = FALSE
          BY <3>3
        <4>2. QED
          BY <4>1, Zenon
      <3>4. QED
        BY <3>2, <3>3
    <2> HIDE DEF s
    <2>6. C(b)!Resolve(s)
      BY <1>6, <2>1, <2>2, <2>3, <2>4, <2>5 DEF IsResolved, C!Resolve
    <2>7. \E status \in C(b)!Terminal : C(b)!Resolve(status)
      BY <2>1, <2>6, Zenon
    <2>8. QED
      BY <2>7 DEF C!Next
  <1>7. CASE IsEndedByOwner(b)
    <2> DEFINE k == TeardownStart(handle[b], "owner")
    <2>1. /\ handle'[b] = k /\ k.rows = handle[b].rows /\ k.stops = handle[b].stops
          /\ Quiet(k) = Quiet(handle[b])
      BY <1>1, <1>7, OwnerTearsDown DEF IsEndedByOwner, OthersSame, Quiet
    <2>2. CASE job'[b] = job[b]
      <3>1. (mode'[b] # "unborn") = (mode[b] # "unborn")
        BY <1>7 DEF IsEndedByOwner
      <3>2. QED
        BY <1>7, <2>1, <2>2, <3>1 DEF IsEndedByOwner, C!vars
    <2>3. CASE mode[b] = "promoting" /\ mode'[b] = "promoted" /\ result[b] # "none"
               /\ job'[b] = JobStatus(result[b])
      <3>1. result[b] \in Terminal
        BY <2>3 DEF Contracted, IInv, TypeOK
      <3>2. job[b] = "none" /\ job'[b] = C(b)!JobOf(result[b])
        BY <1>1, <2>3, <3>1 DEF JobOK, JobStatus, C!JobOf, Terminal
      <3>3. C(b)!EnlistLate
        BY <1>7, <2>1, <2>3, <3>2 DEF IsEndedByOwner, C!EnlistLate
      <3>4. QED
        BY <3>3 DEF C!Next
    <2>4. QED
      BY <1>7, <2>2, <2>3 DEF IsEndedByOwner
  <1>8. CASE IsAnnounced(b)
    <2>1. PICK s \in Terminal : handle'[b].stops = <<s>>
      BY <1>8 DEF IsAnnounced
    <2>2. Quiet(handle'[b]) = Quiet(handle[b])
      BY <1>8 DEF IsAnnounced, OthersSame, Quiet
    <2>3. ASSUME Quiet(handle[b]), result[b] # "none" PROVE s = result[b]
      <3>1. /\ Faithful(handle'[b]) /\ handle'[b].run = "done"
            /\ result[b] = handle'[b].status
        BY <1>2, <1>8, <2>2, <2>3 DEF IsAnnounced, Bystander, Matches
      <3>2. Len(handle'[b].stops) = 1 /\ handle'[b].stops[1] = s
        BY <2>1
      <3>3. QED
        BY <3>1, <3>2 DEF Faithful
    <2>4. C(b)!Announce(s)
      BY <1>8, <2>1, <2>2, <2>3 DEF IsAnnounced, Bystander, C!Announce
    <2>5. QED
      BY <2>4 DEF C!Next, C!Terminal, Terminal
  <1>9. CASE IsForgotten(b)
    <2>1. Quiet(handle'[b]) = Quiet(handle[b])
      BY <1>9 DEF IsForgotten, OthersSame, Quiet
    <2>2. CASE b \in active
      BY <1>9, <2>1, <2>2 DEF IsForgotten, C!Forget, C!Next
    <2>3. CASE b \notin active
      BY <1>9, <2>1, <2>3 DEF IsForgotten, C!vars
    <2>4. QED
      BY <2>2, <2>3
  <1>10. CASE IsFreed(b)
    <2>1. handle[b].stops # <<>> /\ job[b] # "running"
      BY <1>1, <1>10 DEF IsFreed, JobOK
    <2>2. C(b)!Free
      BY <1>10, <2>1 DEF IsFreed, C!Free
    <2>3. QED
      BY <2>2 DEF C!Next
  <1>11. QED
    BY <1>3, <1>4, <1>5, <1>6, <1>7, <1>8, <1>9, <1>10 DEF Effect

\* What a step of the run makes of a handle: the row of a run that is over is written.
RunsTo(h, k) == Good(k) /\ RunMoves(h, k) /\ (k.run = "done" => k.rows = h.rows)

\* An agent the step leaves alone.
LEMMA UntouchedStill ==
  ASSUME IInv, NEW b \in Agent, handle'[b] = handle[b], mode'[b] = mode[b], Bystander(b)
  PROVE  Still(b)
  BY DEF Still, Kept, OthersStay, OwnerGoesOn, IInv, TypeOK

\* Only a handle that was forked has anything to do.
LEMMA BusyIsForked ==
  ASSUME Contracted, NEW a \in Agent,
         \/ handle[a] # NewHandle \/ a \in active \/ job[a] # "none" \/ mode[a] = "forked"
  PROVE  mode[a] # "unborn"
  BY DEF Contracted, Jobs, JobOK, IInv, TypeOK

\* A step of one handle that the others do not notice.
LEMMA OneStill ==
  ASSUME Contracted, NEW a \in Agent, NEW k, Kept(handle[a], k), mode[a] # "unborn",
         handle' = [handle EXCEPT ![a] = k],
         UNCHANGED <<active, mode, job, result, released>>
  PROVE  \A b \in Agent : Effect(b)
  <1> SUFFICES ASSUME NEW b \in Agent PROVE Still(b)
    BY DEF Effect
  <1>1. handle'[a] = k /\ \A d \in Agent \ {a} : handle'[d] = handle[d]
    BY DEF Contracted, IInv, TypeOK
  <1>2. Bystander(b)
    BY DEF Bystander
  <1>3. CASE b = a
    BY <1>1, <1>2, <1>3 DEF Still
  <1>4. CASE b # a
    BY <1>1, <1>2, <1>4, UntouchedStill DEF Contracted
  <1>5. QED
    BY <1>3, <1>4

\* A step of one handle whose effect is known, in what belongs to that agent.
LEMMA OneEffect ==
  ASSUME Contracted, NEW a \in Agent, Effect(a),
         \A b \in Agent \ {a} : handle'[b] = handle[b] /\ mode'[b] = mode[b] /\ Bystander(b)
  PROVE  \A b \in Agent : Effect(b)
  BY UntouchedStill DEF Effect, Contracted

\* Starting, failing and finishing a run, as the watchers see it.
LEMMA StartRunsTo ==
  ASSUME NEW h, Good(h), h.run = "none"
  PROVE  RunsTo(h, StartRun(h)) /\ StartRun(h).rows = h.rows
  <1>1. h \in Handle /\ Good(StartRun(h))
    BY StartRunGood DEF Good
  <1>2. LET k == StartRun(h) IN k.stops = h.stops /\ k.stage = h.stage /\ k.rows = h.rows
    BY <1>1 DEF StartRun, NewTrace, Handle
  <1>3. QED
    BY <1>1, <1>2 DEF RunsTo, RunMoves, Good

\* Telling the parent is nothing the watchers see.
LEMMA OnTerminalSame ==
  ASSUME NEW h \in Handle
  PROVE  LET k == OnTerminal(h)
         IN  /\ k.stops = h.stops /\ k.stage = h.stage /\ k.rows = h.rows
             /\ k.run = h.run /\ k.status = h.status
  BY DEF OnTerminal, Handle

\* A run that fails writes its row first, unless it was cancelled.
LEMMA CatchRunsTo ==
  ASSUME NEW h, Good(h), h.run = "streaming", NEW g
  PROVE  RunsTo(h, Catch(h, g))
  <1> DEFINE k == Catch(h, g)
             over == [h EXCEPT !.run = "done"]
  <1>1. h \in Handle /\ Good(k)
    BY CatchGood DEF Good
  <1>2. CASE h.status = "cancelled"
    <2>1. over \in Handle
      BY <1>1 DEF Handle, Runs
    <2>2. over.stops = h.stops /\ over.stage = h.stage /\ over.rows = h.rows
      BY <1>1 DEF Handle
    <2>3. k = OnTerminal(over)
      BY <1>2 DEF Catch
    <2> HIDE DEF over, k
    <2>4. k.stops = h.stops /\ k.stage = h.stage /\ k.rows = h.rows
      BY <2>1, <2>2, <2>3, OnTerminalSame
    <2>5. QED
      BY <1>1, <2>4 DEF RunsTo, RunMoves, Good, k
  <1>3. CASE h.status # "cancelled"
    <2>1. PICK run \in {"cancelling", "failing"}, row \in {"cancelled", "failed"} :
            k = [h EXCEPT !.run = run, !.rows = @ \cup {row}]
      BY <1>3 DEF Catch
    <2>2. k.stops = h.stops /\ k.stage = h.stage /\ h.rows \subseteq k.rows /\ k.run = run
      BY <1>1, <2>1 DEF Handle
    <2> HIDE DEF k
    <2>3. QED
      BY <1>1, <2>2 DEF RunsTo, RunMoves, Good, k
  <1>4. QED
    BY <1>2, <1>3

\* A run whose row is written ends with the rows it has.
LEMMA WrittenRunsTo ==
  ASSUME NEW h, Good(h), h.run \in {"succeeding", "cancelling", "failing"}
  PROVE  RunsTo(h, Written(h))
  <1> DEFINE status == CASE h.run = "cancelling" -> "cancelled"
                         [] h.run = "failing"    -> "failed"
                         [] OTHER                -> h.status
             over == [h EXCEPT !.run = "done", !.status = status,
                               !.latest = IF h.run = "succeeding" THEN @ ELSE status]
             k == Written(h)
  <1>1. h \in Handle /\ Good(k)
    BY WrittenGood DEF Good
  <1>2. over \in Handle
    BY <1>1 DEF Handle, Runs, Terminal
  <1>3. over.stops = h.stops /\ over.stage = h.stage /\ over.rows = h.rows
    BY <1>1 DEF Handle
  <1>4. k = OnTerminal(over)
    BY DEF Written
  <1> HIDE DEF over, k
  <1>5. k.stops = h.stops /\ k.stage = h.stage /\ k.rows = h.rows
    BY <1>2, <1>3, <1>4, OnTerminalSame
  <1>6. QED
    BY <1>1, <1>5 DEF RunsTo, RunMoves, Good, k

\* A step of the run, to its next await or to its end.
LEMMA RunStepEffects ==
  ASSUME Contracted, NEW a \in Agent, NEW h, RunsTo(handle[a], h), RunStep(a, h),
         handle[a].run # "done", mode[a] # "unborn", released' = released,
         \A b \in Agent \ {a} : mode'[b] = mode[b],
         mode'[a] = mode[a] \/ (mode[a] = "forked" /\ mode'[a] = "foreground")
  PROVE  \A b \in Agent : Effect(b)
  <1>1. /\ JobOK(handle[a], mode[a], job[a], result[a]) /\ handle[a] \in Handle
        /\ result[a] = "none" /\ Good(h) /\ h \in Handle
        /\ mode[a] \in Modes /\ mode'[a] \in Modes \ {"unborn"}
        /\ job[a] \in {"none", "running"}
    BY DEF Contracted, Jobs, JobOK, IInv, TypeOK, Matching, Matches, RunsTo, RunMoves, Modes
  <1>2. /\ h.stops = handle[a].stops /\ h.stage = handle[a].stage /\ handle[a].rows \subseteq h.rows
        /\ h.run = "done" => h.rows = handle[a].rows /\ h.status \in h.rows /\ h.status \in Terminal
    BY DEF RunsTo, RunMoves, Good, Logged
  <1>3. CASE h.run = "done"
    <2> DEFINE k == IF job[a] = "running" THEN TeardownStart(h, "owner") ELSE h
    <2>1. /\ handle' = [handle EXCEPT ![a] = k] /\ result' = [result EXCEPT ![a] = h.status]
          /\ job' = IF job[a] = "running" THEN [job EXCEPT ![a] = JobStatus(h.status)] ELSE job
          /\ active' = IF h.seen THEN active \ {a} ELSE active
      BY <1>3 DEF RunStep, RunOver
    <2>2. /\ k \in Handle /\ k.rows = h.rows /\ k.stops = h.stops /\ k.run = "done"
          /\ k.status = h.status /\ OthersSame(handle[a], k)
          /\ k.stage["owner"] = "returned" => k.stops # <<>>
      <3>1. CASE job[a] = "running"
        BY <1>1, <1>2, <1>3, <3>1, OwnerTearsDown DEF OthersSame
      <3>2. CASE job[a] # "running"
        BY <1>1, <1>2, <1>3, <3>2 DEF OthersSame, JobOK
      <3>3. QED
        BY <3>1, <3>2
    <2> HIDE DEF k
    <2>3. /\ handle'[a] = k /\ result'[a] = h.status
          /\ job'[a] = IF job[a] = "running" THEN JobStatus(h.status) ELSE job[a]
      BY <2>1 DEF Contracted, IInv, TypeOK
    <2>4. job[a] = "running" => mode'[a] = mode[a]
      BY <1>1 DEF JobOK
    <2>5. IsResolved(a)
      BY <1>1, <1>2, <1>3, <2>1, <2>2, <2>3, <2>4 DEF IsResolved
    <2>6. \A b \in Agent \ {a} : handle'[b] = handle[b] /\ Bystander(b)
      BY <2>1 DEF Contracted, IInv, TypeOK, Bystander
    <2>7. QED
      BY <2>5, <2>6, OneEffect DEF Effect
  <1>4. CASE h.run # "done"
    <2>1. handle' = [handle EXCEPT ![a] = h] /\ UNCHANGED <<active, job, result>>
      BY <1>4 DEF RunStep
    <2>2. handle'[a] = h /\ \A b \in Agent : Bystander(b)
      BY <2>1 DEF Contracted, IInv, TypeOK, Bystander
    <2>3. Kept(handle[a], h)
      BY <1>1, <1>2 DEF Kept, OthersStay, OwnerGoesOn
    <2>4. Still(a)
      BY <2>2, <2>3 DEF Still
    <2>5. \A b \in Agent \ {a} : handle'[b] = handle[b]
      BY <2>1 DEF Contracted, IInv, TypeOK
    <2>6. QED
      BY <2>2, <2>4, <2>5, OneEffect DEF Effect
  <1>5. QED
    BY <1>3, <1>4

\* The run, its turns, its timers and its retry.
LEMMA RunEffects ==
  ASSUME Contracted, NEW a \in Agent,
         \/ StreamReturns(a) \/ DrainReturns(a) \/ StreamThrows(a) \/ ModelRejected(a)
         \/ FallbackStarts(a) \/ TimesOut(a) \/ IdleFires(a) \/ RowWritten(a)
  PROVE  \A b \in Agent : Effect(b)
  <1> DEFINE h == handle[a]
  <1>0. h.run # "none" => mode[a] # "unborn"
    BY DEF Contracted, IInv, AgentInv
  <1>1. h \in Handle /\ Good(h)
    BY DEF Contracted, IInv, TypeOK, AgentInv
  <1>2. \A k : /\ RunsTo(h, k) /\ RunStep(a, k) /\ h.run \notin {"none", "done"}
               /\ mode' = mode /\ released' = released
               => \A b \in Agent : Effect(b)
    BY <1>0, RunStepEffects
  <1>3. \A k : /\ k \in Handle /\ k.stops = h.stops /\ k.stage = h.stage /\ k.rows = h.rows
               /\ k.run = h.run /\ mode[a] # "unborn" /\ handle' = [handle EXCEPT ![a] = k]
               /\ UNCHANGED <<active, mode, job, result, released>>
               => \A b \in Agent : Effect(b)
    <2> SUFFICES ASSUME NEW k \in Handle, k.stops = h.stops, k.stage = h.stage, k.rows = h.rows,
                        k.run = h.run, mode[a] # "unborn", handle' = [handle EXCEPT ![a] = k],
                        UNCHANGED <<active, mode, job, result, released>>
                 PROVE  \A b \in Agent : Effect(b)
      OBVIOUS
    <2>1. Kept(h, k)
      BY DEF Kept, OthersStay, OwnerGoesOn
    <2>2. QED
      BY <2>1, OneStill
  <1>4. CASE StreamReturns(a)
    <2> DEFINE g == [h EXCEPT !.status = "succeeded", !.latest = "succeeded"]
               drained == NewTrace([g EXCEPT !.run = "draining"])
               row == [g EXCEPT !.run = "succeeding", !.rows = @ \cup {"succeeded"}]
    <2>0. h.run = "streaming"
      BY <1>4 DEF StreamReturns
    <2>1. /\ RunStep(a, drained) \/ RunStep(a, row)
          /\ mode' = mode /\ released' = released
      BY <1>4 DEF StreamReturns
    <2>2. Good(drained) /\ Good(row)
      <3>1. Good(g) /\ Grows(h, g) /\ g.run = "streaming" /\ g.status = "succeeded"
        BY <1>1, <2>0, SucceedGood
      <3> HIDE DEF g
      <3>2. Good(drained)
        BY <3>1, DrainGood
      <3>3. Good(row) /\ Grows(g, row)
        BY <3>1, RowGood
      <3>4. QED
        BY <3>2, <3>3
    <2>3. /\ drained.run = "draining" /\ row.run = "succeeding"
          /\ drained.stage = h.stage /\ row.stage = h.stage
          /\ drained.stops = h.stops /\ row.stops = h.stops
          /\ h.rows \subseteq drained.rows /\ h.rows \subseteq row.rows
      BY <1>1 DEF NewTrace, Handle
    <2> HIDE DEF drained, row
    <2>4. RunsTo(h, drained) /\ RunsTo(h, row)
      BY <2>2, <2>3 DEF RunsTo, RunMoves, Good
    <2>5. QED
      BY <1>2, <2>0, <2>1, <2>4
  <1>5. CASE DrainReturns(a)
    <2> DEFINE drained == NewTrace(h)
               row == [h EXCEPT !.run = "succeeding", !.rows = @ \cup {"succeeded"}]
    <2>0. h.run = "draining"
      BY <1>5 DEF DrainReturns
    <2>1. /\ RunStep(a, drained) \/ RunStep(a, row)
          /\ mode' = mode /\ released' = released
      BY <1>5 DEF DrainReturns
    <2>2. h.status \in {"succeeded", "cancelled"}
      BY <1>1, <2>0 DEF Good, Logged
    <2>3. Good(drained) /\ Good(row)
      <3>1. Good(drained)
        BY <1>1, NewTraceGood
      <3>2. Good(row) /\ Grows(h, row)
        BY <1>1, <2>0, <2>2, RowGood
      <3>3. QED
        BY <3>1, <3>2
    <2>4. /\ drained.run = "draining" /\ row.run = "succeeding"
          /\ drained.stage = h.stage /\ row.stage = h.stage
          /\ drained.stops = h.stops /\ row.stops = h.stops
          /\ h.rows \subseteq drained.rows /\ h.rows \subseteq row.rows
      BY <1>1, <2>0 DEF NewTrace, Handle
    <2> HIDE DEF drained, row
    <2>5. RunsTo(h, drained) /\ RunsTo(h, row)
      BY <2>3, <2>4 DEF RunsTo, RunMoves, Good
    <2>6. QED
      BY <1>2, <2>0, <2>1, <2>5
  <1>6. CASE StreamThrows(a)
    <2>1. /\ RunStep(a, Catch(h, a \in active)) /\ h.run = "streaming"
          /\ mode' = mode /\ released' = released
      BY <1>6 DEF StreamThrows
    <2>2. QED
      BY <1>1, <1>2, <2>1, CatchRunsTo
  <1>7. CASE TimesOut(a)
    <2> DEFINE x == IF h.abort = "none" THEN "own" ELSE h.abort
               g == [h EXCEPT !.abort = x]
               k == Catch(g, a \in active)
    <2>1. RunStep(a, k) /\ h.run = "streaming" /\ mode' = mode /\ released' = released
      BY <1>7 DEF TimesOut
    <2>2. x \in {"none", "own", "cascade", "inherited", "cancel"}
      BY <1>1 DEF Handle
    <2>3. Good(g) /\ g.run = h.run
      <3> HIDE DEF x
      <3>1. QED
        BY <1>1, <2>2, AbortGood
    <2>4. g.rows = h.rows /\ g.stops = h.stops /\ g.stage = h.stage
      BY <1>1 DEF Handle
    <2> HIDE DEF g
    <2>5. RunsTo(g, k)
      BY <2>1, <2>3, CatchRunsTo
    <2> HIDE DEF k
    <2>6. RunsTo(h, k)
      BY <2>4, <2>5 DEF RunsTo, RunMoves
    <2>7. QED
      BY <1>2, <2>1, <2>6
  <1>8. CASE RowWritten(a)
    <2>1. /\ RunStep(a, Written(h)) /\ h.run \in {"succeeding", "cancelling", "failing"}
          /\ mode' = mode /\ released' = released
      BY <1>8 DEF RowWritten
    <2>2. QED
      BY <1>1, <1>2, <2>1, WrittenRunsTo
  <1>9. CASE ModelRejected(a) \/ FallbackStarts(a) \/ IdleFires(a)
    <2>1. PICK k : /\ handle' = [handle EXCEPT ![a] = k]
                   /\ \/ k = [h EXCEPT !.retry = "pending"]
                      \/ k = NewTrace([h EXCEPT !.retry = "used", !.session = 2])
                      \/ k = [h EXCEPT !.abort = "own"]
      BY <1>9 DEF ModelRejected, FallbackStarts, IdleFires
    <2>2. /\ k.run = h.run /\ k.stops = h.stops /\ k.stage = h.stage /\ k.rows = h.rows
          /\ k \in Handle
      <3>1. CASE k = [h EXCEPT !.retry = "pending"]
        BY <1>1, <3>1 DEF Handle
      <3>2. CASE k = NewTrace([h EXCEPT !.retry = "used", !.session = 2])
        <4> DEFINE g == [h EXCEPT !.retry = "used", !.session = 2]
        <4>1. g \in Handle
          <5>1. "used" \in {"pending", "used"} /\ 2 \in 1..2
            OBVIOUS
          <5>2. Good(g)
            BY <1>1, <5>1, RetryGood
          <5>3. QED
            BY <5>2 DEF Good
        <4>2. g.run = h.run /\ g.stops = h.stops /\ g.stage = h.stage /\ g.rows = h.rows
          BY <1>1 DEF Handle
        <4>3. k = NewTrace(g)
          BY <3>2
        <4> HIDE DEF g
        <4>4. QED
          BY <4>1, <4>2, <4>3 DEF NewTrace, Handle
      <3>3. CASE k = [h EXCEPT !.abort = "own"]
        BY <1>1, <3>3 DEF Handle
      <3>4. QED
        BY <2>1, <3>1, <3>2, <3>3
    <2>3. /\ UNCHANGED <<active, mode, job, result, released>>
          /\ h.run \in {"streaming", "draining"} \/ h.retry = "pending"
      BY <1>9 DEF ModelRejected, FallbackStarts, IdleFires, managing, sweeping
    <2>4. mode[a] # "unborn"
      <3>1. NewHandle.run = "none" /\ NewHandle.retry = "unused"
        BY DEF NewHandle
      <3>2. QED
        BY <2>3, <3>1, BusyIsForked
    <2>5. QED
      BY <1>3, <2>1, <2>2, <2>3, <2>4
  <1> HIDE DEF h
  <1>10. QED
    BY <1>4, <1>5, <1>6, <1>7, <1>8, <1>9, Zenon

\* A caller who is not the owner moves on: that is all the others may notice.
LEMMA StageKept ==
  ASSUME NEW h \in Handle, NEW c \in Caller, NEW s \in Stage \ {"none", "returned"},
         h.stage[c] # "none" \/ c # "owner"
  PROVE  Kept(h, [h EXCEPT !.stage[c] = s])
  <1> DEFINE k == [h EXCEPT !.stage[c] = s]
  <1>1. k \in Handle
    BY DEF Handle
  <1>2. /\ k.stops = h.stops /\ k.rows = h.rows /\ k.run = h.run
        /\ \A d \in Caller : k.stage[d] = IF d = c THEN s ELSE h.stage[d]
    BY DEF Handle
  <1> HIDE DEF k
  <1>3. "owner" \in Caller
    BY DEF Caller
  <1>4. QED
    BY <1>1, <1>2, <1>3 DEF Kept, OthersStay, OwnerGoesOn, k

\* cancel() by another caller, and teardown() of the whole fleet.
LEMMA OtherKept ==
  ASSUME NEW h \in Handle, NEW k \in Handle, NEW c \in Caller \ {"owner"},
         k.stops = h.stops, h.rows \subseteq k.rows, k.run = h.run,
         \A d \in Caller \ {c} : k.stage[d] = h.stage[d], k.stage[c] # "none"
  PROVE  Kept(h, k)
  BY DEF Kept, OthersStay, OwnerGoesOn, Caller

\* Beginning to close a handle moves one caller.
LEMMA StartCloseSame ==
  ASSUME NEW h \in Handle, NEW c \in Caller
  PROVE  LET k == StartClose(h, c)
         IN  /\ k.stops = h.stops /\ k.rows = h.rows /\ k.run = h.run
             /\ k.stage[c] # "none" /\ \A d \in Caller \ {c} : k.stage[d] = h.stage[d]
  BY DEF StartClose, Handle

\* So does coming back.
LEMMA ReturnedSame ==
  ASSUME NEW h \in Handle, NEW c \in Caller
  PROVE  LET k == [h EXCEPT !.stage[c] = "returned"]
         IN  /\ k.stops = h.stops /\ k.rows = h.rows /\ k.run = h.run
             /\ k.stage[c] # "none" /\ \A d \in Caller \ {c} : k.stage[d] = h.stage[d]
  BY DEF Handle

\* cancel() by another caller: a row, and the caller has begun.
LEMMA CancelKept ==
  ASSUME NEW h, Good(h), NEW c \in Caller \ {"owner"}, NEW g
  PROVE  Kept(h, CancelStart(h, c, g))
  <1> DEFINE k == CancelStart(h, c, g)
  <1>1. h \in Handle /\ k \in Handle
    BY CancelGood DEF Good
  <1>2. CASE h.status = "cancelled" \/ h.stops # <<>>
    <2>1. k = [h EXCEPT !.stage[c] = "returned"]
      BY <1>2 DEF CancelStart
    <2> HIDE DEF k
    <2>2. /\ k.stops = h.stops /\ k.rows = h.rows /\ k.run = h.run
          /\ k.stage[c] # "none" /\ \A d \in Caller \ {c} : k.stage[d] = h.stage[d]
      BY <1>1, <2>1, ReturnedSame
    <2>3. Kept(h, k)
      BY <1>1, <2>2, OtherKept
    <2>4. QED
      BY <2>3 DEF k
  <1>3. CASE ~(h.status = "cancelled" \/ h.stops # <<>>)
    <2> DEFINE l == [h EXCEPT !.reported[c] = LatestOr(h),
                              !.status = "cancelled",
                              !.rows = @ \cup {"cancelled"},
                              !.abort = IF g /\ @ = "none" THEN "cancel" ELSE @]
    <2>1. h \in Handle /\ LatestOr(h) \in Terminal
      BY LatestOrType DEF Good
    <2>2. l \in Handle
      BY <2>1 DEF Handle, Terminal
    <2>3. l.stops = h.stops /\ h.rows \subseteq l.rows /\ l.run = h.run /\ l.stage = h.stage
      BY <1>1 DEF Handle
    <2>4. k = StartClose(l, c)
      BY <1>3 DEF CancelStart
    <2> HIDE DEF l, k
    <2>5. /\ k.stops = l.stops /\ k.rows = l.rows /\ k.run = l.run
          /\ k.stage[c] # "none" /\ \A d \in Caller \ {c} : k.stage[d] = l.stage[d]
      BY <2>2, <2>4, StartCloseSame
    <2>6. QED
      BY <1>1, <2>3, <2>5, OtherKept DEF k
  <1>4. QED
    BY <1>2, <1>3

\* teardown() of the whole fleet: the caller has begun.
LEMMA TeardownKept ==
  ASSUME NEW h, Good(h), NEW c \in Caller \ {"owner"}
  PROVE  Kept(h, TeardownStart(h, c))
  <1> DEFINE k == TeardownStart(h, c)
  <1>1. h \in Handle /\ k \in Handle
    BY TeardownGood DEF Good
  <1>2. CASE h.stops # <<>>
    <2>1. k = [h EXCEPT !.stage[c] = "returned"]
      BY <1>2 DEF TeardownStart
    <2> HIDE DEF k
    <2>2. /\ k.stops = h.stops /\ k.rows = h.rows /\ k.run = h.run
          /\ k.stage[c] # "none" /\ \A d \in Caller \ {c} : k.stage[d] = h.stage[d]
      BY <1>1, <2>1, ReturnedSame
    <2>3. Kept(h, k)
      BY <1>1, <2>2, OtherKept
    <2>4. QED
      BY <2>3 DEF k
  <1>3. CASE h.stops = <<>>
    <2> DEFINE l == [h EXCEPT !.reported[c] = LatestOr(h)]
    <2>1. h \in Handle /\ LatestOr(h) \in Terminal
      BY LatestOrType DEF Good
    <2>2. l \in Handle
      BY <2>1 DEF Handle
    <2>3. l.stops = h.stops /\ h.rows \subseteq l.rows /\ l.run = h.run /\ l.stage = h.stage
      BY <1>1 DEF Handle
    <2>4. k = StartClose(l, c)
      BY <1>3 DEF TeardownStart
    <2> HIDE DEF l, k
    <2>5. /\ k.stops = l.stops /\ k.rows = l.rows /\ k.run = l.run
          /\ k.stage[c] # "none" /\ \A d \in Caller \ {c} : k.stage[d] = l.stage[d]
      BY <2>2, <2>4, StartCloseSame
    <2>6. QED
      BY <1>1, <2>3, <2>5, OtherKept DEF k
  <1>4. QED
    BY <1>2, <1>3

\* An abort that an ancestor passes on.
LEMMA AbortKept ==
  ASSUME NEW h, Good(h), NEW x \in {"none", "own", "cascade", "inherited", "cancel"}
  PROVE  /\ Kept(h, [h EXCEPT !.abort = x]) /\ RunMoves(h, [h EXCEPT !.abort = x])
         /\ [h EXCEPT !.abort = x].rows = h.rows
  <1> DEFINE k == [h EXCEPT !.abort = x]
  <1>1. h \in Handle /\ k \in Handle
    BY AbortGood DEF Good
  <1>2. k.stops = h.stops /\ k.stage = h.stage /\ k.rows = h.rows /\ k.run = h.run
    BY <1>1 DEF Handle
  <1> HIDE DEF k
  <1>3. Kept(h, k) /\ RunMoves(h, k) /\ k.rows = h.rows
    BY <1>1, <1>2 DEF Kept, RunMoves, OthersStay, OwnerGoesOn
  <1>4. QED
    BY <1>3 DEF k

\* An abort and the cancel() after it are one step.
LEMMA KeptTransitive ==
  ASSUME NEW h, NEW k, NEW l, Kept(h, k), Kept(k, l)
  PROVE  Kept(h, l)
  BY DEF Kept, OthersStay, OwnerGoesOn

\* A caller is back and the manager forgets a handle whose stop was dispatched.
LEMMA LeaveEffects ==
  ASSUME Contracted, NEW a \in Agent, NEW c \in Caller, mode[a] # "unborn",
         handle[a].stage[c] # "none", handle[a].stops # <<>>, active' = active \ {a},
         handle' = [handle EXCEPT ![a] = OnTerminal([handle[a] EXCEPT !.stage[c] = "returned"])],
         UNCHANGED <<mode, job, result, released>>
  PROVE  \A b \in Agent : Effect(b)
  <1> DEFINE k == [handle[a] EXCEPT !.stage[c] = "returned"]
             l == OnTerminal(k)
  <1>1. handle[a] \in Handle /\ Good(handle[a])
    BY DEF Contracted, IInv, TypeOK, AgentInv
  <1>2. Good(k)
    <2>1. "returned" \in Stage \ {"hook"}
      BY DEF Stage
    <2>2. QED
      BY <1>1, <2>1, StageGood
  <1>3. /\ k.rows = handle[a].rows /\ k.run = handle[a].run /\ k.stops = handle[a].stops
        /\ \A d \in Caller : k.stage[d] = IF d = c THEN "returned" ELSE handle[a].stage[d]
    BY <1>1 DEF Handle
  <1>4. handle' = [handle EXCEPT ![a] = l]
    OBVIOUS
  <1> HIDE DEF k
  <1>5. /\ l \in Handle /\ l.rows = handle[a].rows /\ l.run = handle[a].run
        /\ l.stops = handle[a].stops /\ l.stage = k.stage
    BY <1>2, <1>3, OnTerminalGood, OnTerminalSame DEF Good
  <1> HIDE DEF l
  <1>6. OthersSame(handle[a], l) /\ OwnerGoesOn(handle[a], l)
    BY <1>3, <1>5 DEF OthersSame, OwnerGoesOn, Caller
  <1>7. handle'[a] = l /\ \A b \in Agent \ {a} : handle'[b] = handle[b] /\ Bystander(b)
    BY <1>4 DEF Contracted, IInv, TypeOK, Bystander
  <1>8. IsForgotten(a)
    BY <1>5, <1>6, <1>7 DEF IsForgotten
  <1>9. QED
    BY <1>7, <1>8, OneEffect DEF Effect

\* Ending a handle: a caller moves on, the stop is dispatched or found, the owner frees.
LEMMA EndEffects ==
  ASSUME Contracted, NEW a \in Agent, NEW c \in Caller,
         \/ Interrupted(a, c) \/ Closed(a, c) \/ HookReturns(a, c)
         \/ CancelByUser(a) \/ ForegroundEnds(a) \/ Release(a)
  PROVE  \A b \in Agent : Effect(b)
  <1>1. handle[a] \in Handle /\ Good(handle[a])
    BY DEF Contracted, IInv, TypeOK, AgentInv
  <1>2. JobOK(handle[a], mode[a], job[a], result[a])
    BY DEF Contracted, Jobs
  <1>3. ASSUME handle[a].stage[c] # "none" PROVE mode[a] # "unborn"
    <2>1. NewHandle.stage[c] = "none"
      BY DEF NewHandle
    <2>2. QED
      BY <1>3, <2>1, BusyIsForked
  <1>4. CASE Interrupted(a, c)
    <2> DEFINE k == [handle[a] EXCEPT !.stage[c] = "close"]
    <2>1. /\ handle[a].stage[c] = "interrupt" /\ handle' = [handle EXCEPT ![a] = k]
          /\ UNCHANGED <<active, mode, job, result, released>>
      BY <1>4 DEF Interrupted
    <2>2. "close" \in Stage \ {"none", "returned"}
      BY DEF Stage
    <2>3. Kept(handle[a], k)
      BY <1>1, <2>1, <2>2, StageKept
    <2> HIDE DEF k
    <2>4. QED
      BY <1>3, <2>1, <2>3, OneStill
  <1>5. CASE Closed(a, c)
    <2>1. /\ handle[a].stage[c] = "close" /\ UNCHANGED <<mode, job, result, released>>
      BY <1>5 DEF Closed
    <2>2. CASE handle[a].stops = <<>>
      <3> DEFINE k == [handle[a] EXCEPT !.stops = Append(@, handle[a].reported[c]), !.stage[c] = "hook"]
      <3>1. handle' = [handle EXCEPT ![a] = k] /\ active' = active
        BY <1>5, <2>2 DEF Closed
      <3>2. handle[a].reported[c] \in Terminal /\ "hook" \in Stage
        BY <1>1 DEF Handle, Stage
      <3>3. /\ k.rows = handle[a].rows /\ k.run = handle[a].run
            /\ \A d \in Caller : k.stage[d] = IF d = c THEN "hook" ELSE handle[a].stage[d]
            /\ k.stops = <<handle[a].reported[c]>>
        BY <1>1, <2>2 DEF Handle
      <3>4. k \in Handle
        <4>1. IInv'
          BY <1>5, EndInv DEF Contracted
        <4> HIDE DEF k
        <4>2. handle'[a] = k
          BY <3>1 DEF Contracted, IInv, TypeOK
        <4>3. QED
          BY <4>1, <4>2 DEF IInv, TypeOK
      <3> HIDE DEF k
      <3>5. OthersSame(handle[a], k)
        BY <2>1, <3>3 DEF OthersSame
      <3>6. OwnerGoesOn(handle[a], k)
        BY <2>1, <3>3 DEF OwnerGoesOn, Caller
      <3>7. handle'[a] = k /\ \A b \in Agent \ {a} : handle'[b] = handle[b]
        BY <1>1, <3>1 DEF Contracted, IInv, TypeOK
      <3>8. \A b \in Agent : Bystander(b) /\ mode'[b] = mode[b]
        BY <2>1, <3>1 DEF Bystander
      <3>9. \E s \in Terminal : k.stops = <<s>>
        BY <3>2, <3>3
      <3>10. IsAnnounced(a)
        BY <1>3, <2>1, <2>2, <3>3, <3>4, <3>5, <3>6, <3>7, <3>8, <3>9 DEF IsAnnounced
      <3>11. QED
        BY <3>7, <3>8, <3>10, OneEffect DEF Effect
    <2>3. CASE handle[a].stops # <<>>
      <3>1. /\ handle' = [handle EXCEPT ![a] = OnTerminal([handle[a] EXCEPT !.stage[c] = "returned"])]
            /\ active' = active \ {a}
        BY <1>5, <2>3 DEF Closed
      <3>2. QED
        BY <1>3, <2>1, <2>3, <3>1, LeaveEffects
    <2>4. QED
      BY <2>2, <2>3
  <1>6. CASE HookReturns(a, c)
    <2>1. /\ handle[a].stage[c] = "hook" /\ UNCHANGED <<mode, job, result, released>>
          /\ handle' = [handle EXCEPT ![a] = OnTerminal([handle[a] EXCEPT !.stage[c] = "returned"])]
          /\ active' = active \ {a}
      BY <1>6 DEF HookReturns
    <2>2. handle[a].stops # <<>>
      BY <1>1, <2>1 DEF Good
    <2>3. QED
      BY <1>3, <2>1, <2>2, LeaveEffects
  <1>7. CASE CancelByUser(a)
    <2>1. /\ handle' = [handle EXCEPT ![a] = CancelStart(handle[a], "user", a \in active)]
          /\ UNCHANGED <<active, mode, job, result, released>>
          /\ a \in active \/ job[a] = "running" \/ mode[a] \in {"foreground", "promoting", "refused"}
      BY <1>7 DEF CancelByUser
    <2>2. mode[a] # "unborn"
      BY <2>1, BusyIsForked
    <2>3. "user" \in Caller \ {"owner"}
      BY DEF Caller
    <2>4. Kept(handle[a], CancelStart(handle[a], "user", a \in active))
      BY <1>1, <2>3, CancelKept
    <2>5. QED
      BY <2>1, <2>2, <2>4, OneStill
  <1>8. CASE ForegroundEnds(a)
    <2>1. /\ handle' = [handle EXCEPT ![a] = TeardownStart(handle[a], "owner")]
          /\ UNCHANGED <<active, mode, job, result, released>>
          /\ mode[a] \in {"foreground", "refused"} /\ result[a] # "none"
      BY <1>8 DEF ForegroundEnds
    <2>2. /\ handle'[a] = TeardownStart(handle[a], "owner")
          /\ \A b \in Agent \ {a} : handle'[b] = handle[b]
      BY <2>1 DEF Contracted, IInv, TypeOK
    <2>3. IsEndedByOwner(a) /\ \A b \in Agent : Bystander(b) /\ mode'[b] = mode[b]
      BY <2>1, <2>2 DEF IsEndedByOwner, Bystander
    <2>4. QED
      BY <2>2, <2>3, OneEffect DEF Effect
  <1>9. CASE Release(a)
    <2>1. /\ handle[a].stage["owner"] = "returned" /\ released[a] = 0
          /\ released' = [released EXCEPT ![a] = released[a] + 1]
          /\ UNCHANGED <<handle, active, mode, job, result>>
      BY <1>9 DEF Release
    <2>2. released'[a] = 1 /\ \A b \in Agent \ {a} : released'[b] = released[b]
      BY <2>1 DEF Contracted, IInv, TypeOK
    <2>3. IsFreed(a) /\ \A b \in Agent \ {a} : Bystander(b) /\ mode'[b] = mode[b]
      BY <2>1, <2>2 DEF IsFreed, Bystander
    <2>4. QED
      BY <2>1, <2>3, OneEffect DEF Effect
  <1>10. QED
    BY <1>4, <1>5, <1>6, <1>7, <1>8, <1>9

\* The registry and the manager: every handle they reach is aborted, cancelled or torn down.
LEMMA FleetEffects ==
  ASSUME Contracted,
         \/ SweepBegins \/ SweepDrains \/ SweepSettles \/ SweepTimesOut
         \/ ParentAborts \/ DrainBegins \/ DrainEnds \/ TeardownAll
  PROVE  \A b \in Agent : Effect(b)
  <1> SUFFICES ASSUME NEW b \in Agent PROVE Still(b)
    BY DEF Effect
  <1>1. handle[b] \in Handle /\ Good(handle[b]) /\ handle \in [Agent -> Handle]
    BY DEF Contracted, IInv, TypeOK, AgentInv
  <1>2. {"registry", "manager"} \subseteq Caller \ {"owner"}
    BY DEF Caller
  <1>3. Bystander(b) /\ mode'[b] = mode[b]
    BY DEF SweepBegins, SweepDrains, SweepSettles, SweepTimesOut, ParentAborts, DrainBegins,
           DrainEnds, TeardownAll, sweeping, managing, Bystander
  <1>4. handle'[b] = handle[b] => Still(b)
    BY <1>3, UntouchedStill DEF Contracted
  <1>5. ASSUME Kept(handle[b], handle'[b]), b \in active \/ b \in Running PROVE Still(b)
    <2>1. mode[b] # "unborn"
      BY <1>5, BusyIsForked DEF Running
    <2>2. QED
      BY <1>3, <1>5, <2>1 DEF Still
  <1>6. CASE SweepBegins
    <2>1. handle'[b] = IF b \in Running
            THEN CancelStart(handle[b], "registry", b \in active) ELSE handle[b]
      BY <1>6 DEF SweepBegins
    <2>2. Kept(handle[b], CancelStart(handle[b], "registry", b \in active))
      BY <1>1, <1>2, CancelKept
    <2>3. QED
      BY <1>4, <1>5, <2>1, <2>2
  <1>7. CASE SweepDrains \/ SweepSettles \/ SweepTimesOut \/ DrainEnds
    BY <1>4, <1>7 DEF SweepDrains, SweepSettles, SweepTimesOut, DrainEnds
  <1>8. CASE ParentAborts
    <2>1. PICK why \in {"cascade", "inherited"} :
            handle' = [d \in Agent |-> IF d \in active /\ handle[d].abort = "none"
                        THEN [handle[d] EXCEPT !.abort = why] ELSE handle[d]]
      BY <1>8 DEF ParentAborts
    <2>2. \/ b \in active /\ handle'[b] = [handle[b] EXCEPT !.abort = why]
          \/ handle'[b] = handle[b]
      BY <2>1
    <2>3. why \in {"none", "own", "cascade", "inherited", "cancel"}
      OBVIOUS
    <2>4. Kept(handle[b], [handle[b] EXCEPT !.abort = why])
      BY <1>1, <2>3, AbortKept
    <2>5. QED
      BY <1>4, <1>5, <2>2, <2>4
  <1>9. CASE DrainBegins
    <2> DEFINE x == CASE handle[b].abort = "none" -> "cascade"
                      [] handle[b].abort = "own"  -> "inherited"
                      [] OTHER                    -> handle[b].abort
               k == Cascade(handle[b])
               l == CancelStart(k, "manager", TRUE)
    <2>1. handle'[b] = IF b \in active THEN l ELSE handle[b]
      BY <1>9 DEF DrainBegins
    <2>2. Good(k) /\ Kept(handle[b], k)
      <3>1. Kept(handle[b], handle[b])
        BY <1>1 DEF Kept, OthersStay, OwnerGoesOn
      <3>2. x \in {"none", "own", "cascade", "inherited", "cancel"}
        BY <1>1 DEF Handle
      <3>3. Cascade(handle[b]) = IF root # "live" THEN handle[b] ELSE [handle[b] EXCEPT !.abort = x]
        BY DEF Cascade
      <3> HIDE DEF x
      <3>4. Kept(handle[b], [handle[b] EXCEPT !.abort = x])
        BY <1>1, <3>2, AbortKept
      <3>5. QED
        BY <1>1, <3>1, <3>3, <3>4, CascadeGood
    <2> HIDE DEF k
    <2>3. Kept(k, l)
      BY <1>2, <2>2, CancelKept
    <2> HIDE DEF l
    <2>4. Kept(handle[b], l)
      BY <2>2, <2>3, KeptTransitive
    <2>5. QED
      BY <1>4, <1>5, <2>1, <2>4
  <1>10. CASE TeardownAll
    <2>1. handle'[b] = IF b \in active THEN TeardownStart(handle[b], "manager") ELSE handle[b]
      BY <1>10 DEF TeardownAll
    <2>2. Kept(handle[b], TeardownStart(handle[b], "manager"))
      BY <1>1, <1>2, TeardownKept
    <2>3. QED
      BY <1>4, <1>5, <2>1, <2>2
  <1>11. QED
    BY <1>6, <1>7, <1>8, <1>9, <1>10

\* Forking, starting and handing over a run.
LEMMA DispatchEffects ==
  ASSUME Contracted, NEW a \in Agent,
         \/ Fork(a) \/ Register(a) \/ RefuseJob(a) \/ StartForeground(a)
         \/ Promote(a) \/ Adopt(a) \/ RefusePromotion(a)
  PROVE  \A b \in Agent : Effect(b)
  <1>1. handle[a] \in Handle /\ Good(handle[a])
    BY DEF Contracted, IInv, TypeOK, AgentInv
  <1>2. JobOK(handle[a], mode[a], job[a], result[a]) /\ mode[a] \in Modes
    BY DEF Contracted, Jobs, IInv, TypeOK
  <1>3. /\ mode[a] = "forked" => handle[a].run = "none" /\ result[a] = "none"
        /\ result[a] # "none" => handle[a].run = "done"
    BY DEF Contracted, IInv, AgentInv, Matching, Matches
  <1>4. mode[a] \in {"unborn", "forked", "promoting"} => job[a] = "none"
    BY <1>2 DEF JobOK
  <1>5. CASE Fork(a)
    <2> DEFINE x == IF root = "live" THEN handle[a].abort ELSE "cascade"
               k == [handle[a] EXCEPT !.abort = x]
    <2>1. /\ handle' = [handle EXCEPT ![a] = k] /\ mode' = [mode EXCEPT ![a] = "forked"]
          /\ mode[a] = "unborn" /\ active' = active \cup {a}
          /\ UNCHANGED <<job, result, released>>
      BY <1>5 DEF Fork
    <2>2. x \in {"none", "own", "cascade", "inherited", "cancel"}
      BY <1>1 DEF Handle
    <2> HIDE DEF x
    <2>3. RunMoves(handle[a], k) /\ k.rows = handle[a].rows
      BY <1>1, <2>2, AbortKept
    <2> HIDE DEF k
    <2>4. /\ handle'[a] = k /\ mode'[a] = "forked"
          /\ \A b \in Agent \ {a} : handle'[b] = handle[b] /\ mode'[b] = mode[b] /\ Bystander(b)
      BY <2>1 DEF Contracted, IInv, TypeOK, Bystander
    <2>5. IsForked(a)
      BY <2>1, <2>3, <2>4 DEF IsForked
    <2>6. QED
      BY <2>4, <2>5, OneEffect DEF Effect
  <1>6. CASE Register(a)
    <2> DEFINE h == StartRun(handle[a])
    <2>1. /\ mode[a] = "forked" /\ mode' = [mode EXCEPT ![a] = "background"]
          /\ UNCHANGED <<active, released>>
      BY <1>6 DEF Register
    <2>2. /\ RunsTo(handle[a], h) /\ h.rows = handle[a].rows
      BY <1>1, <1>3, <2>1, StartRunsTo
    <2>3. mode'[a] = "background" /\ \A b \in Agent \ {a} : mode'[b] = mode[b]
      BY <2>1 DEF Contracted, IInv, TypeOK
    <2>4. CASE h.run = "done"
      <3> DEFINE k == TeardownStart(h, "owner")
      <3>1. /\ handle' = [handle EXCEPT ![a] = k] /\ result' = [result EXCEPT ![a] = h.status]
            /\ job' = [job EXCEPT ![a] = JobStatus(h.status)]
        BY <1>6, <2>4 DEF Register
      <3> HIDE DEF h
      <3>2. /\ h.stops = handle[a].stops /\ h.stage = handle[a].stage /\ Good(h)
            /\ h.status \in h.rows
        BY <2>2, <2>4 DEF RunsTo, RunMoves, Good, Logged
      <3>3. /\ k \in Handle /\ k.rows = h.rows /\ k.stops = h.stops /\ k.run = h.run
            /\ k.status = h.status /\ OthersSame(h, k)
            /\ k.stage["owner"] = "returned" => k.stops # <<>>
        BY <3>2, OwnerTearsDown
      <3> HIDE DEF k
      <3>4. /\ handle'[a] = k /\ result'[a] = h.status /\ job'[a] = JobStatus(h.status)
            /\ \A b \in Agent \ {a} : handle'[b] = handle[b] /\ Bystander(b)
        BY <2>1, <3>1 DEF Contracted, IInv, TypeOK, Bystander
      <3>5. OthersSame(handle[a], k)
        BY <3>2, <3>3 DEF OthersSame
      <3>6. IsResolved(a)
        BY <1>3, <2>1, <2>2, <2>3, <2>4, <3>2, <3>3, <3>4, <3>5 DEF IsResolved
      <3>7. QED
        BY <2>3, <3>4, <3>6, OneEffect DEF Effect
    <2>5. CASE h.run # "done"
      <3>1. handle' = [handle EXCEPT ![a] = h] /\ job' = [job EXCEPT ![a] = "running"] /\ result' = result
        BY <1>6, <2>5 DEF Register
      <3> HIDE DEF h
      <3>2. /\ handle'[a] = h /\ job'[a] = "running"
            /\ \A b \in Agent \ {a} : handle'[b] = handle[b] /\ Bystander(b)
        BY <2>1, <3>1 DEF Contracted, IInv, TypeOK, Bystander
      <3>3. IsEnlisted(a)
        BY <1>3, <2>1, <2>2, <2>3, <3>1, <3>2 DEF IsEnlisted, RunsTo
      <3>4. QED
        BY <2>3, <3>2, <3>3, OneEffect DEF Effect
    <2>6. QED
      BY <2>4, <2>5
  <1>7. CASE RefuseJob(a)
    <2>1. /\ handle' = [handle EXCEPT ![a] = TeardownStart(handle[a], "owner")]
          /\ mode[a] = "forked" /\ mode' = [mode EXCEPT ![a] = "rejected"]
          /\ UNCHANGED <<active, job, result, released>>
      BY <1>7 DEF RefuseJob
    <2>2. /\ handle'[a] = TeardownStart(handle[a], "owner") /\ mode'[a] = "rejected"
          /\ \A b \in Agent \ {a} : handle'[b] = handle[b] /\ mode'[b] = mode[b]
      BY <2>1 DEF Contracted, IInv, TypeOK
    <2>3. IsEndedByOwner(a) /\ \A b \in Agent : Bystander(b)
      BY <2>1, <2>2 DEF IsEndedByOwner, Bystander
    <2>4. QED
      BY <2>2, <2>3, OneEffect DEF Effect
  <1>8. CASE StartForeground(a)
    <2> DEFINE h == StartRun(handle[a])
    <2>1. /\ mode[a] = "forked" /\ mode' = [mode EXCEPT ![a] = "foreground"]
          /\ RunStep(a, h) /\ released' = released
      BY <1>8 DEF StartForeground
    <2>2. RunsTo(handle[a], h)
      BY <1>1, <1>3, <2>1, StartRunsTo
    <2>3. mode'[a] = "foreground" /\ \A b \in Agent \ {a} : mode'[b] = mode[b]
      BY <2>1 DEF Contracted, IInv, TypeOK
    <2> HIDE DEF h
    <2>4. QED
      BY <1>3, <2>1, <2>2, <2>3, RunStepEffects
  <1>9. CASE Promote(a) \/ RefusePromotion(a)
    <2>1. PICK m \in {"promoting", "refused"} : mode' = [mode EXCEPT ![a] = m]
      BY <1>9 DEF Promote, RefusePromotion
    <2>2. mode[a] \in {"foreground", "promoting"} /\ UNCHANGED <<handle, active, job, result, released>>
      BY <1>9 DEF Promote, RefusePromotion
    <2>3. mode'[a] = m /\ \A b \in Agent \ {a} : mode'[b] = mode[b]
      BY <2>1 DEF Contracted, IInv, TypeOK
    <2>4. \A b \in Agent : Bystander(b) /\ handle'[b] = handle[b]
      BY <2>2 DEF Bystander
    <2>5. Kept(handle[a], handle'[a])
      BY <1>1, <2>4 DEF Kept, OthersStay, OwnerGoesOn
    <2>6. Still(a)
      BY <2>2, <2>3, <2>4, <2>5 DEF Still
    <2>7. QED
      BY <2>3, <2>4, <2>6, OneEffect DEF Effect
  <1>10. CASE Adopt(a)
    <2>1. /\ mode[a] = "promoting" /\ mode' = [mode EXCEPT ![a] = "promoted"]
          /\ UNCHANGED <<active, result, released>>
      BY <1>10 DEF Adopt
    <2>2. mode'[a] = "promoted" /\ \A b \in Agent \ {a} : mode'[b] = mode[b]
      BY <2>1 DEF Contracted, IInv, TypeOK
    <2>3. CASE result[a] = "none"
      <3>1. job' = [job EXCEPT ![a] = "running"] /\ handle' = handle
        BY <1>10, <2>3 DEF Adopt
      <3>2. /\ handle'[a] = handle[a] /\ job'[a] = "running"
            /\ \A b \in Agent \ {a} : handle'[b] = handle[b] /\ Bystander(b)
        BY <2>1, <3>1 DEF Contracted, IInv, TypeOK, Bystander
      <3>3. IsEnlisted(a)
        BY <1>1, <2>1, <2>2, <2>3, <3>2 DEF IsEnlisted, RunMoves
      <3>4. QED
        BY <2>2, <3>2, <3>3, OneEffect DEF Effect
    <2>4. CASE result[a] # "none"
      <3>1. /\ job' = [job EXCEPT ![a] = JobStatus(result[a])]
            /\ handle' = [handle EXCEPT ![a] = TeardownStart(handle[a], "owner")]
        BY <1>10, <2>4 DEF Adopt
      <3>2. /\ handle'[a] = TeardownStart(handle[a], "owner") /\ job'[a] = JobStatus(result[a])
            /\ \A b \in Agent \ {a} : handle'[b] = handle[b] /\ Bystander(b)
        BY <2>1, <3>1 DEF Contracted, IInv, TypeOK, Bystander
      <3>3. IsEndedByOwner(a)
        BY <2>1, <2>2, <2>4, <3>2 DEF IsEndedByOwner
      <3>4. QED
        BY <2>2, <3>2, <3>3, OneEffect DEF Effect
    <2>5. QED
      BY <2>3, <2>4
  <1>11. QED
    BY <1>5, <1>6, <1>7, <1>8, <1>9, <1>10

\* Every step of the system is, for each agent, one of the kinds.
LEMMA NextEffects ==
  ASSUME Contracted, Next
  PROVE  \A b \in Agent : Effect(b)
  <1>1. CASE \E a \in Agent : \/ Fork(a) \/ Register(a) \/ RefuseJob(a) \/ StartForeground(a)
                              \/ Promote(a) \/ Adopt(a) \/ RefusePromotion(a)
    BY <1>1, DispatchEffects
  <1>2. CASE \E a \in Agent : \/ StreamReturns(a) \/ DrainReturns(a) \/ StreamThrows(a)
                              \/ ModelRejected(a) \/ FallbackStarts(a) \/ TimesOut(a)
                              \/ IdleFires(a) \/ RowWritten(a)
    BY <1>2, RunEffects
  <1>3. CASE \E a \in Agent, c \in Caller :
                 \/ Interrupted(a, c) \/ Closed(a, c) \/ HookReturns(a, c)
                 \/ CancelByUser(a) \/ ForegroundEnds(a) \/ Release(a)
    BY <1>3, EndEffects
  <1>4. CASE \/ SweepBegins \/ SweepDrains \/ SweepSettles \/ SweepTimesOut
             \/ ParentAborts \/ DrainBegins \/ DrainEnds \/ TeardownAll
    BY <1>4, FleetEffects
  <1>5. "user" \in Caller
    BY DEF Caller
  <1>6. QED
    BY <1>1, <1>2, <1>3, <1>4, <1>5 DEF Next

\* No job is registered before anything is forked.
LEMMA InitJobs == Init => Jobs
  <1> SUFFICES ASSUME Init, NEW a \in Agent PROVE JobOK(handle[a], mode[a], job[a], result[a])
    BY DEF Jobs
  <1>1. handle[a] = NewHandle
    <2>1. handle = [b \in Agent |-> NewHandle]
      BY DEF Init
    <2>2. QED
      BY <2>1, Zenon
  <1>2. mode[a] = "unborn" /\ job[a] = "none" /\ result[a] = "none"
    BY DEF Init
  <1>3. NewHandle.stage["owner"] = "none"
    BY DEF NewHandle, Caller
  <1>4. QED
    BY <1>1, <1>2, <1>3 DEF JobOK

\* The handles, the results and the jobs fit in every reachable state.
LEMMA NextContracted == Contracted /\ [Next]_vars => Contracted'
  <1> SUFFICES ASSUME Contracted, [Next]_vars PROVE Contracted'
    OBVIOUS
  <1>1. IInv' /\ Matching'
    BY NextInv, NextMatching DEF Contracted
  <1>2. CASE UNCHANGED vars
    BY <1>1, <1>2 DEF vars, Contracted, Jobs
  <1>3. CASE Next
    <2>1. \A b \in Agent : Effect(b)
      BY <1>3, NextEffects
    <2>2. Jobs'
      BY <1>1, <2>1, EffectJobs DEF Jobs
    <2>3. QED
      BY <1>1, <2>2 DEF Contracted
  <1>4. QED
    BY <1>2, <1>3

\* A new agent begins as the contract says.
LEMMA InitContract == Init => \A a \in Agent : C(a)!Init
  <1> SUFFICES ASSUME Init, NEW a \in Agent PROVE C(a)!Init
    OBVIOUS
  <1>1. handle[a] = NewHandle
    <2>1. handle = [b \in Agent |-> NewHandle]
      BY DEF Init
    <2>2. QED
      BY <2>1, Zenon
  <1>2. /\ mode[a] = "unborn" /\ a \notin active /\ result[a] = "none" /\ job[a] = "none"
        /\ released[a] = 0
    BY DEF Init
  <1>3. NewHandle.rows = {} /\ NewHandle.stops = <<>> /\ Quiet(NewHandle)
    BY DEF NewHandle, Quiet
  <1>4. /\ (mode[a] # "unborn") = FALSE /\ (a \in active) = FALSE
        /\ Quiet(handle[a]) = TRUE
    BY <1>1, <1>2, <1>3 DEF Quiet
  <1>5. QED
    BY <1>1, <1>2, <1>3, <1>4 DEF C!Init

\* Forking, running, ending, promoting and sweeping subagents, await by await and with up to
\* four callers at one handle, implements SubagentContract for every agent: one outcome with its row,
\* one stop that tells it when only the owner ends the handle, nothing forgotten too soon,
\* and one release after that (handle.ts, manager.ts, background-registry.ts).
THEOREM SubagentKeepsContract == Spec => KeepsContract
  <1>1. Init => Contracted
    BY InitInv, InitMatching, InitJobs DEF Contracted
  <1>2. Contracted /\ Contracted' /\ [Next]_vars
          => [\A a \in Agent : [C(a)!Next]_(C(a)!vars)]_vars
    <2> SUFFICES ASSUME Contracted, Contracted', Next, NEW a \in Agent
                 PROVE  C(a)!Next \/ UNCHANGED C(a)!vars
      OBVIOUS
    <2>1. Effect(a)
      BY NextEffects
    <2>2. QED
      BY <2>1, EffectContract
  <1>3. QED
    BY <1>1, <1>2, InitContract, NextContracted, PTL DEF Spec, KeepsContract
=============================================================================
