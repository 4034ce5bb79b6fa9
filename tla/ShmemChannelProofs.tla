------------------------- MODULE ShmemChannelProofs -------------------------
(***************************************************************************)
(* Proofs about ShmemChannel that hold for every number of calls,          *)
(* deadlines, crashes and signals, and for both wire formats.              *)
(***************************************************************************)
EXTENDS ShmemChannel, TLAPS

\* While the server handles a request the state byte holds no answer, and while
\* the client reads an answer it holds no request: each side can only enter its
\* part of the exchange by seeing the value the other part excludes.
ExclusionInv ==
    /\ OutputExclusive
    /\ ServerHandling => state \notin {"RES_READY", "ERROR"}
    /\ ClientReading => state # "REQ_READY"

LEMMA ExclusionInit == Init => ExclusionInv
BY DEF Init, ExclusionInv, OutputExclusive, ServerHandling, ClientReading

\* Each step of the two processes preserves ExclusionInv.
LEMMA ExclusionStep == ExclusionInv /\ [Next]_vars => ExclusionInv'
<1> SUFFICES ASSUME ExclusionInv, [Next]_vars PROVE ExclusionInv'
    OBVIOUS
<1> USE DEF ExclusionInv, OutputExclusive, ServerHandling, ClientReading,
            memVars, inputVars, clientVars, serverVars, faultVars
<1>1. CASE ClientRefuse \/ ClientWriteLen
  BY <1>1 DEF ClientRefuse, ClientWriteLen, MayCall
<1>2. CASE ClientDeadline
  BY <1>2 DEF ClientDeadline
<1>3. CASE ClientWriteHead \/ ClientWriteTail
  BY <1>3 DEF ClientWriteHead, ClientWriteTail
<1>4. CASE ClientStoreReady
  BY <1>4 DEF ClientStoreReady
<1>5. CASE ClientSetEvent \/ ClientBlocks \/ ClientWakes
  BY <1>5 DEF ClientSetEvent, ClientBlocks, ClientWakes
<1>6. CASE ClientSeesAnswer
  BY <1>6 DEF ClientSeesAnswer, Answered
<1>7. CASE ClientTimesOut \/ ClientDrainTimeout \/ ClientResetTimeout
  BY <1>7 DEF ClientTimesOut, ClientDrainTimeout, ClientResetTimeout
<1>8. CASE ClientLoad \/ ClientDrain \/ ClientReset
  BY <1>8 DEF ClientLoad, ClientDrain, ClientReset
<1>9. CASE ClientReadLen \/ ClientReadLenError \/ ClientReadBody \/ ClientReadError
  BY <1>9 DEF ClientReadLen, ClientReadLenError, ClientReadBody, ClientReadError, Return
<1>10. CASE ServerTop \/ ServerSpinHit \/ ServerSpinEnds \/ ServerWakes
  BY <1>10 DEF ServerTop, ServerSpinHit, ServerSpinEnds, ServerWakes
<1>11. CASE ServerLoad
  BY <1>11 DEF ServerLoad
<1>12. CASE ServerClaim
  BY <1>12 DEF ServerClaim
<1>13. CASE ServerReadLen \/ ServerReadHead \/ ServerReadTail
  BY <1>13 DEF ServerReadLen, ServerReadHead, ServerReadTail
<1>14. CASE ServerDispatchError
  BY <1>14 DEF ServerDispatchError
<1>15. CASE \E fits \in BOOLEAN : ServerDispatch(fits)
  BY <1>15 DEF ServerDispatch
<1>16. CASE ServerWriteBody \/ ServerWriteLen \/ ServerPublish \/ ServerSignal
  BY <1>16 DEF ServerWriteBody, ServerWriteLen, ServerPublish, ServerSignal
<1>17. CASE ServerCrash \/ CtrlC \/ ServerRestart
  BY <1>17 DEF ServerCrash, CtrlC, ServerRestart
<1>18. CASE ServerResetIn \/ ServerResetOut \/ ServerResetState
  BY <1>18 DEF ServerResetIn, ServerResetOut, ServerResetState
<1>19. CASE UNCHANGED vars
  BY <1>19 DEF vars
<1> QED
  BY <1>1, <1>2, <1>3, <1>4, <1>5, <1>6, <1>7, <1>8, <1>9, <1>10, <1>11, <1>12,
     <1>13, <1>14, <1>15, <1>16, <1>17, <1>18, <1>19 DEF Next, ClientStep, ServerStep

\* In every behaviour, with any number of timeouts, crashes and restarts, the
\* client never copies a response out while the server handles a request, so
\* send_raw's early reset_to_idle cannot tear a response.
THEOREM OutputExclusiveHolds == Spec => []OutputExclusive
<1>1. ExclusionInv => OutputExclusive
  BY DEF ExclusionInv
<1> QED
  BY ExclusionInit, ExclusionStep, <1>1, PTL DEF Spec
-----------------------------------------------------------------------------
\* What the provers need of the type invariant to see that it is inductive: once
\* a request was announced, the input cells hold calls.
InputWritten ==
    /\ cpc # "idle" => cur \in Calls
    /\ cpc \in {"write_tail", "store_ready"} => inHead \in Calls
    /\ cpc = "store_ready" => inTail \in Calls
    /\ state = "REQ_READY" \/ ServerHandling => inHead \in Calls /\ inTail \in Calls
    /\ spc \in {"read_tail", "dispatch"} => raw.head \in Calls
    /\ spc = "dispatch" => raw.tail \in Calls

TypeInv == TypeOK /\ InputWritten

LEMMA OutcomeType ==
    \A k \in {"none", "ok", "error", "stale", "timeout", "refused"},
       n \in 0..MaxCalls : Outcome(k, n) \in Outcomes
BY DEF Outcome, Outcomes

LEMMA TypeInit == Init => TypeInv
<1> SUFFICES ASSUME Init PROVE TypeInv
    OBVIOUS
<1> USE ShmemAssumption DEF Init, Calls
<1>1. state \in States /\ cpc \in ClientSteps /\ spc \in ServerSteps
  BY DEF States, ClientSteps, ServerSteps
<1>2. outBody \in Bodies /\ NoBody \in Bodies
  BY DEF Bodies, NoBody
<1>3. resp \in [state : {"IDLE", "RES_READY", "ERROR"}, body : Bodies, fits : BOOLEAN]
  BY <1>2
<1>4. answers \in [Calls -> Outcomes]
  BY DEF Outcomes, Outcome
<1>5. InputWritten
  BY DEF InputWritten, ServerHandling
<1>6. shutdown \in BOOLEAN /\ tornRead \in BOOLEAN
  BY Zenon
<1>7. execs \in [Calls -> Nat] /\ events \subseteq {"req", "res"}
  OBVIOUS
<1> QED
  BY <1>1, <1>2, <1>3, <1>4, <1>5, <1>6, <1>7 DEF TypeInv, TypeOK

LEMMA TypeStep == TypeInv /\ [Next]_vars => TypeInv'
<1> SUFFICES ASSUME TypeInv, [Next]_vars PROVE TypeInv'
    OBVIOUS
<1> USE ShmemAssumption DEF TypeInv, TypeOK, InputWritten, States, ClientSteps,
        ServerSteps, Calls, ServerHandling,
        memVars, inputVars, clientVars, serverVars, faultVars
<1>1. CASE ClientRefuse
  BY <1>1 DEF ClientRefuse, MayCall, Outcomes, Outcome
<1>2. CASE ClientWriteLen
  BY <1>2 DEF ClientWriteLen, MayCall
<1>3. CASE ClientWriteHead
  BY <1>3 DEF ClientWriteHead
<1>4. CASE ClientWriteTail
  BY <1>4 DEF ClientWriteTail
<1>5. CASE ClientStoreReady
  BY <1>5 DEF ClientStoreReady
<1>6. CASE ClientSetEvent
  BY <1>6 DEF ClientSetEvent
<1>7. CASE ClientSeesAnswer
  BY <1>7 DEF ClientSeesAnswer, Answered
<1>8. CASE ClientBlocks
  BY <1>8 DEF ClientBlocks
<1>9. CASE ClientWakes
  BY <1>9 DEF ClientWakes
<1>10. CASE ClientDeadline
  BY <1>10 DEF ClientDeadline
<1>11. CASE ClientTimesOut
  BY <1>11 DEF ClientTimesOut
<1>12. CASE ClientDrainTimeout
  BY <1>12 DEF ClientDrainTimeout
<1>13. CASE ClientResetTimeout
  BY <1>13 DEF ClientResetTimeout, Outcomes, Outcome
<1>14. CASE ClientLoad
  BY <1>14 DEF ClientLoad
<1>15. CASE ClientDrain
  BY <1>15 DEF ClientDrain
<1>16. CASE ClientReset
  BY <1>16 DEF ClientReset
<1>17. CASE ClientReadLen
  <2>1. CASE outLen = 0
    <3>1. cpc' = "idle" /\ answers' = [answers EXCEPT ![cur] = Outcome("error", 0)]
      BY <1>17, <2>1 DEF ClientReadLen, Return
    <3>2. Outcome("error", 0) \in Outcomes
      BY OutcomeType
    <3>3. answers' \in [Calls -> Outcomes]
      BY <3>1, <3>2
    <3> QED
      BY <1>17, <3>1, <3>3 DEF ClientReadLen
  <2>2. CASE outLen # 0
    BY <1>17, <2>2 DEF ClientReadLen
  <2> QED
    BY <2>1, <2>2
<1>18. CASE ClientReadLenError
  <2>1. CASE outLen = 0
    <3>1. cpc' = "idle" /\ answers' = [answers EXCEPT ![cur] = Outcome("error", 0)]
      BY <1>18, <2>1 DEF ClientReadLenError, Return
    <3>2. Outcome("error", 0) \in Outcomes
      BY OutcomeType
    <3>3. answers' \in [Calls -> Outcomes]
      BY <3>1, <3>2
    <3> QED
      BY <1>18, <3>1, <3>3 DEF ClientReadLenError
  <2>2. CASE outLen # 0
    BY <1>18, <2>2 DEF ClientReadLenError
  <2> QED
    BY <2>1, <2>2
<1>19. CASE ClientReadBody
  BY <1>19 DEF ClientReadBody, Return, Accept, Outcomes, Outcome, Bodies
<1>20. CASE ClientReadError
  BY <1>20 DEF ClientReadError, Return, Outcomes, Outcome, Bodies
<1>21. CASE ServerTop
  BY <1>21 DEF ServerTop
<1>22. CASE ServerSpinHit
  BY <1>22 DEF ServerSpinHit
<1>23. CASE ServerSpinEnds
  BY <1>23 DEF ServerSpinEnds
<1>24. CASE ServerWakes
  BY <1>24 DEF ServerWakes
<1>25. CASE ServerLoad
  BY <1>25 DEF ServerLoad
<1>26. CASE ServerClaim
  BY <1>26 DEF ServerClaim
<1>27. CASE ServerReadLen
  BY <1>27 DEF ServerReadLen
<1>28. CASE ServerReadHead
  BY <1>28 DEF ServerReadHead
<1>29. CASE ServerReadTail
  BY <1>29 DEF ServerReadTail
<1>30. CASE ServerDispatchError
  BY <1>30 DEF ServerDispatchError, Bodies, NoBody
<1>31. CASE \E fits \in BOOLEAN : ServerDispatch(fits)
  BY <1>31 DEF ServerDispatch, Bodies, IdCell, ArgsCell
<1>32. CASE ServerWriteBody
  BY <1>32 DEF ServerWriteBody
<1>33. CASE ServerWriteLen
  BY <1>33 DEF ServerWriteLen
<1>34. CASE ServerPublish
  BY <1>34 DEF ServerPublish
<1>35. CASE ServerSignal
  BY <1>35 DEF ServerSignal
<1>36. CASE CtrlC
  BY <1>36 DEF CtrlC
<1>37. CASE ServerCrash
  BY <1>37 DEF ServerCrash
<1>38. CASE ServerRestart
  <2>1. shutdown' \in BOOLEAN
    BY <1>38, Zenon DEF ServerRestart
  <2> QED
    BY <1>38, <2>1 DEF ServerRestart
<1>39. CASE ServerResetIn
  BY <1>39 DEF ServerResetIn
<1>40. CASE ServerResetOut
  BY <1>40 DEF ServerResetOut
<1>41. CASE ServerResetState
  BY <1>41 DEF ServerResetState
<1>42. CASE UNCHANGED vars
  BY <1>42 DEF vars
<1> QED
  BY <1>1, <1>2, <1>3, <1>4, <1>5, <1>6, <1>7, <1>8, <1>9, <1>10, <1>11,
     <1>12, <1>13, <1>14, <1>15, <1>16, <1>17, <1>18, <1>19, <1>20, <1>21, <1>22,
     <1>23, <1>24, <1>25, <1>26, <1>27, <1>28, <1>29, <1>30, <1>31, <1>32, <1>33,
     <1>34, <1>35, <1>36, <1>37, <1>38, <1>39, <1>40, <1>41, <1>42
     DEF Next, ClientStep, ServerStep

\* Every variable keeps its type: in particular an executed frame always names
\* requests that were written, never the zeroed buffer of a restart.
THEOREM TypeCorrect == Spec => []TypeOK
<1>1. TypeInv => TypeOK
  BY DEF TypeInv
<1> QED
  BY TypeInit, TypeStep, <1>1, PTL DEF Spec
-----------------------------------------------------------------------------
\* The client has announced its request and has not yet seen an answer.
Waiting == cpc \in {"set_event", "wait", "block"}

\* As long as no deadline has expired the exchange is in lock-step: the state
\* byte is IDLE whenever the client is not between announcing a request and
\* giving the buffer back, ...
LockStep ==
    /\ cpc \notin {"last", "drain_timeout", "reset_timeout"}
    /\ cpc \notin {"set_event", "wait", "block", "load", "drain", "reset", "reset_error"}
          => state = "IDLE"
    /\ ServerHandling => Waiting
    /\ state = "REQ_READY" => Waiting
    /\ ServerHandling /\ spc # "claim" => state # "REQ_READY"

\* ... the server only ever copies the current request, which has not run, ...
RequestFresh ==
    /\ \A r \in Calls : execs[r] <= 1
    /\ \A r \in Calls : r > cur => execs[r] = 0
    /\ cpc \in {"write_head", "write_tail", "store_ready"} =>
          execs[cur] = 0 /\ inLen \in {0, cur}
    /\ cpc \in {"write_tail", "store_ready"} => inHead = cur
    /\ cpc = "store_ready" => inTail = cur
    /\ state = "REQ_READY" \/ spc \in {"claim", "read_len", "read_head", "read_tail", "dispatch"}
          => /\ execs[cur] = 0
             /\ inLen \in {0, cur} /\ inHead = cur /\ inTail = cur
    /\ spc \in {"read_head", "read_tail", "dispatch"} => raw.len \in {0, cur}
    /\ spc \in {"read_tail", "dispatch"} => raw.head = cur
    /\ spc = "dispatch" => raw.tail = cur

\* ... and what the client is about to copy out answers the current call, or is
\* an error, or has been emptied by a restarting server.
AnswerFresh ==
    /\ spc \in {"write_body", "write_len", "publish"} =>
          /\ resp.state \in {"RES_READY", "ERROR"}
          /\ resp.state = "RES_READY" => resp.body.of = cur
    /\ spc \in {"write_len", "publish"} /\ resp.state = "RES_READY" => outBody.of = cur
    /\ state = "RES_READY" => outBody.of = cur
    /\ spc = "reset_state" => outLen = 0
    /\ cpc = "load" => outBody.of = cur \/ outLen = 0 \/ state = "ERROR"
    /\ cpc \in {"drain", "reset", "read_len"} => outBody.of = cur \/ outLen = 0
    /\ cpc = "read_body" => outBody.of = cur
    /\ \A r \in Calls : answers[r].kind = "ok" => answers[r].of = r

UntilTimeoutInv ==
    timeouts = 0 => LockStep /\ RequestFresh /\ AnswerFresh


LEMMA UntilTimeoutInit == Init => UntilTimeoutInv
BY ShmemAssumption DEF Init, UntilTimeoutInv, LockStep, RequestFresh, AnswerFresh, Waiting,
   ServerHandling, Calls, Outcome, NoBody

\* Each step preserves the lock-step as long as no deadline expires.
LEMMA UntilTimeoutStep ==
    TypeInv /\ ExclusionInv /\ UntilTimeoutInv /\ [Next]_vars => UntilTimeoutInv'
<1> SUFFICES ASSUME TypeInv, ExclusionInv, UntilTimeoutInv, [Next]_vars, timeouts' = 0
             PROVE  LockStep' /\ RequestFresh' /\ AnswerFresh'
    BY DEF UntilTimeoutInv
<1> USE ShmemAssumption
<1>a. timeouts \in Nat /\ cur \in Nat /\ MaxCalls \in Nat
  BY DEF TypeInv, TypeOK
<1>b. ~ClientDeadline
  BY <1>a DEF ClientDeadline
<1>c. timeouts = 0
  <2>1. CASE UNCHANGED vars
    BY <2>1 DEF vars, faultVars
  <2>2. CASE Next
    BY <1>b, <2>2 DEF Next, ClientStep, ServerStep, faultVars,
       ClientRefuse, ClientWriteLen, ClientWriteHead, ClientWriteTail,
       ClientStoreReady, ClientSetEvent, ClientSeesAnswer, ClientBlocks,
       ClientWakes, ClientTimesOut, ClientDrainTimeout, ClientResetTimeout,
       ClientLoad, ClientDrain, ClientReset, ClientReadLen,
       ClientReadLenError, ClientReadBody, ClientReadError, ServerTop,
       ServerSpinHit, ServerSpinEnds, ServerWakes, ServerLoad, ServerClaim,
       ServerReadLen, ServerReadHead, ServerReadTail, ServerDispatchError,
       ServerDispatch, ServerWriteBody, ServerWriteLen, ServerPublish,
       ServerSignal, CtrlC, ServerCrash, ServerRestart, ServerResetIn,
       ServerResetOut, ServerResetState
  <2> QED
    BY <2>1, <2>2
<1>d. LockStep /\ RequestFresh /\ AnswerFresh
  BY <1>c DEF UntilTimeoutInv
<1>e. /\ execs \in [Calls -> Nat] /\ answers \in [Calls -> Outcomes] /\ outBody \in Bodies
      /\ inLen \in Nat /\ spc \in ServerSteps /\ cpc \in ClientSteps /\ state \in States
      /\ cpc # "idle" => cur \in Calls
  BY DEF TypeInv, TypeOK, InputWritten
<1> USE DEF memVars, inputVars, clientVars, serverVars, faultVars, Calls, ServerHandling, Waiting
<1>1. CASE ClientRefuse
  <2>1. LockStep'
    BY <1>1, <1>a, <1>d DEF ExclusionInv, OutputExclusive, ClientReading, LockStep, ClientRefuse, MayCall, Outcome
  <2>2. RequestFresh'
    BY <1>1, <1>a, <1>d, <1>e DEF LockStep, RequestFresh, ClientRefuse, MayCall, Outcome
  <2>3. AnswerFresh'
    BY <1>1, <1>a, <1>d, <1>e DEF ExclusionInv, OutputExclusive, ClientReading,
       LockStep, RequestFresh, AnswerFresh, ClientRefuse, MayCall, Outcome
  <2> QED
    BY <2>1, <2>2, <2>3
<1>2. CASE ClientWriteLen
  <2>1. LockStep'
    BY <1>2, <1>a, <1>d DEF ExclusionInv, OutputExclusive, ClientReading, LockStep, ClientWriteLen, MayCall
  <2>2. RequestFresh'
    BY <1>2, <1>a, <1>d, <1>e DEF LockStep, RequestFresh, ClientWriteLen, MayCall
  <2>3. AnswerFresh'
    BY <1>2, <1>a, <1>d, <1>e DEF ExclusionInv, OutputExclusive, ClientReading,
       LockStep, RequestFresh, AnswerFresh, ClientWriteLen, MayCall
  <2> QED
    BY <2>1, <2>2, <2>3
<1>3. CASE ClientWriteHead
  <2>1. LockStep'
    BY <1>3, <1>a, <1>d DEF ExclusionInv, OutputExclusive, ClientReading, LockStep, ClientWriteHead
  <2>2. RequestFresh'
    BY <1>3, <1>a, <1>d, <1>e DEF LockStep, RequestFresh, ClientWriteHead
  <2>3. AnswerFresh'
    BY <1>3, <1>a, <1>d, <1>e DEF ExclusionInv, OutputExclusive, ClientReading,
       LockStep, RequestFresh, AnswerFresh, ClientWriteHead
  <2> QED
    BY <2>1, <2>2, <2>3
<1>4. CASE ClientWriteTail
  <2>1. LockStep'
    BY <1>4, <1>a, <1>d DEF ExclusionInv, OutputExclusive, ClientReading, LockStep, ClientWriteTail
  <2>2. RequestFresh'
    BY <1>4, <1>a, <1>d, <1>e DEF LockStep, RequestFresh, ClientWriteTail
  <2>3. AnswerFresh'
    BY <1>4, <1>a, <1>d, <1>e DEF ExclusionInv, OutputExclusive, ClientReading,
       LockStep, RequestFresh, AnswerFresh, ClientWriteTail
  <2> QED
    BY <2>1, <2>2, <2>3
<1>5. CASE ClientStoreReady
  <2>1. LockStep'
    BY <1>5, <1>a, <1>d DEF ExclusionInv, OutputExclusive, ClientReading, LockStep, ClientStoreReady
  <2>2. RequestFresh'
    BY <1>5, <1>a, <1>d, <1>e DEF LockStep, RequestFresh, ClientStoreReady
  <2>3. AnswerFresh'
    BY <1>5, <1>a, <1>d, <1>e DEF ExclusionInv, OutputExclusive, ClientReading,
       LockStep, RequestFresh, AnswerFresh, ClientStoreReady
  <2> QED
    BY <2>1, <2>2, <2>3
<1>6. CASE ClientSetEvent
  <2>1. LockStep'
    BY <1>6, <1>a, <1>d DEF ExclusionInv, OutputExclusive, ClientReading, LockStep, ClientSetEvent
  <2>2. RequestFresh'
    BY <1>6, <1>a, <1>d, <1>e DEF LockStep, RequestFresh, ClientSetEvent
  <2>3. AnswerFresh'
    BY <1>6, <1>a, <1>d, <1>e DEF ExclusionInv, OutputExclusive, ClientReading,
       LockStep, RequestFresh, AnswerFresh, ClientSetEvent
  <2> QED
    BY <2>1, <2>2, <2>3
<1>7. CASE ClientSeesAnswer
  <2>1. LockStep'
    BY <1>7, <1>a, <1>d DEF ExclusionInv, OutputExclusive, ClientReading, LockStep, ClientSeesAnswer, Answered
  <2>2. RequestFresh'
    BY <1>7, <1>a, <1>d, <1>e DEF LockStep, RequestFresh, ClientSeesAnswer, Answered
  <2>3. AnswerFresh'
    BY <1>7, <1>a, <1>d, <1>e DEF ExclusionInv, OutputExclusive, ClientReading,
       LockStep, RequestFresh, AnswerFresh, ClientSeesAnswer, Answered
  <2> QED
    BY <2>1, <2>2, <2>3
<1>8. CASE ClientBlocks
  <2>1. LockStep'
    BY <1>8, <1>a, <1>d DEF ExclusionInv, OutputExclusive, ClientReading, LockStep, ClientBlocks
  <2>2. RequestFresh'
    BY <1>8, <1>a, <1>d, <1>e DEF LockStep, RequestFresh, ClientBlocks
  <2>3. AnswerFresh'
    BY <1>8, <1>a, <1>d, <1>e DEF ExclusionInv, OutputExclusive, ClientReading,
       LockStep, RequestFresh, AnswerFresh, ClientBlocks
  <2> QED
    BY <2>1, <2>2, <2>3
<1>9. CASE ClientWakes
  <2>1. LockStep'
    BY <1>9, <1>a, <1>d DEF ExclusionInv, OutputExclusive, ClientReading, LockStep, ClientWakes
  <2>2. RequestFresh'
    BY <1>9, <1>a, <1>d, <1>e DEF LockStep, RequestFresh, ClientWakes
  <2>3. AnswerFresh'
    BY <1>9, <1>a, <1>d, <1>e DEF ExclusionInv, OutputExclusive, ClientReading,
       LockStep, RequestFresh, AnswerFresh, ClientWakes
  <2> QED
    BY <2>1, <2>2, <2>3
<1>10. CASE ClientTimesOut
  <2>1. LockStep'
    BY <1>10, <1>a, <1>d DEF ExclusionInv, OutputExclusive, ClientReading, LockStep, ClientTimesOut
  <2>2. RequestFresh'
    BY <1>10, <1>a, <1>d, <1>e DEF LockStep, RequestFresh, ClientTimesOut
  <2>3. AnswerFresh'
    BY <1>10, <1>a, <1>d, <1>e DEF ExclusionInv, OutputExclusive, ClientReading,
       LockStep, RequestFresh, AnswerFresh, ClientTimesOut
  <2> QED
    BY <2>1, <2>2, <2>3
<1>11. CASE ClientDrainTimeout
  <2>1. LockStep'
    BY <1>11, <1>a, <1>d DEF ExclusionInv, OutputExclusive, ClientReading, LockStep, ClientDrainTimeout
  <2>2. RequestFresh'
    BY <1>11, <1>a, <1>d, <1>e DEF LockStep, RequestFresh, ClientDrainTimeout
  <2>3. AnswerFresh'
    BY <1>11, <1>a, <1>d, <1>e DEF ExclusionInv, OutputExclusive, ClientReading,
       LockStep, RequestFresh, AnswerFresh, ClientDrainTimeout
  <2> QED
    BY <2>1, <2>2, <2>3
<1>12. CASE ClientResetTimeout
  <2>1. LockStep'
    BY <1>12, <1>a, <1>d DEF ExclusionInv, OutputExclusive, ClientReading, LockStep, ClientResetTimeout, Outcome
  <2>2. RequestFresh'
    BY <1>12, <1>a, <1>d, <1>e DEF LockStep, RequestFresh, ClientResetTimeout, Outcome
  <2>3. AnswerFresh'
    BY <1>12, <1>a, <1>d, <1>e DEF ExclusionInv, OutputExclusive, ClientReading,
       LockStep, RequestFresh, AnswerFresh, ClientResetTimeout, Outcome
  <2> QED
    BY <2>1, <2>2, <2>3
<1>13. CASE ClientLoad
  <2>1. LockStep'
    BY <1>13, <1>a, <1>d DEF ExclusionInv, OutputExclusive, ClientReading, LockStep, ClientLoad
  <2>2. RequestFresh'
    BY <1>13, <1>a, <1>d, <1>e DEF LockStep, RequestFresh, ClientLoad
  <2>3. AnswerFresh'
    BY <1>13, <1>a, <1>d, <1>e DEF ExclusionInv, OutputExclusive, ClientReading,
       LockStep, RequestFresh, AnswerFresh, ClientLoad
  <2> QED
    BY <2>1, <2>2, <2>3
<1>14. CASE ClientDrain
  <2>1. LockStep'
    BY <1>14, <1>a, <1>d DEF ExclusionInv, OutputExclusive, ClientReading, LockStep, ClientDrain
  <2>2. RequestFresh'
    BY <1>14, <1>a, <1>d, <1>e DEF LockStep, RequestFresh, ClientDrain
  <2>3. AnswerFresh'
    BY <1>14, <1>a, <1>d, <1>e DEF ExclusionInv, OutputExclusive, ClientReading,
       LockStep, RequestFresh, AnswerFresh, ClientDrain
  <2> QED
    BY <2>1, <2>2, <2>3
<1>15. CASE ClientReset
  <2>1. LockStep'
    BY <1>15, <1>a, <1>d DEF ExclusionInv, OutputExclusive, ClientReading, LockStep, ClientReset
  <2>2. RequestFresh'
    BY <1>15, <1>a, <1>d, <1>e DEF LockStep, RequestFresh, ClientReset
  <2>3. AnswerFresh'
    BY <1>15, <1>a, <1>d, <1>e DEF ExclusionInv, OutputExclusive, ClientReading,
       LockStep, RequestFresh, AnswerFresh, ClientReset
  <2> QED
    BY <2>1, <2>2, <2>3
<1>16. CASE ClientReadLen
  <2>1. LockStep'
    BY <1>16, <1>a, <1>d DEF ExclusionInv, OutputExclusive, ClientReading, LockStep, ClientReadLen, Return, Outcome
  <2>2. RequestFresh'
    BY <1>16, <1>a, <1>d, <1>e DEF LockStep, RequestFresh, ClientReadLen, Return, Outcome
  <2>3. AnswerFresh'
    BY <1>16, <1>a, <1>d, <1>e DEF ExclusionInv, OutputExclusive, ClientReading,
       LockStep, RequestFresh, AnswerFresh, ClientReadLen, Return, Outcome
  <2> QED
    BY <2>1, <2>2, <2>3
<1>17. CASE ClientReadLenError
  <2>1. LockStep'
    BY <1>17, <1>a, <1>d DEF ExclusionInv, OutputExclusive, ClientReading, LockStep, ClientReadLenError, Return, Outcome
  <2>2. RequestFresh'
    BY <1>17, <1>a, <1>d, <1>e DEF LockStep, RequestFresh, ClientReadLenError, Return, Outcome
  <2>3. AnswerFresh'
    BY <1>17, <1>a, <1>d, <1>e DEF ExclusionInv, OutputExclusive, ClientReading,
       LockStep, RequestFresh, AnswerFresh, ClientReadLenError, Return, Outcome
  <2> QED
    BY <2>1, <2>2, <2>3
<1>18. CASE ClientReadBody
  <2>1. LockStep'
    BY <1>18, <1>a, <1>d DEF ExclusionInv, OutputExclusive, ClientReading, LockStep, ClientReadBody, Return, Accept, Outcome
  <2>2. RequestFresh'
    BY <1>18, <1>a, <1>d, <1>e DEF LockStep, RequestFresh, ClientReadBody, Return, Accept, Outcome
  <2>3. AnswerFresh'
    BY <1>18, <1>a, <1>d, <1>e DEF ExclusionInv, OutputExclusive, ClientReading,
       LockStep, RequestFresh, AnswerFresh, ClientReadBody, Return, Accept, Outcome
  <2> QED
    BY <2>1, <2>2, <2>3
<1>19. CASE ClientReadError
  <2>1. LockStep'
    BY <1>19, <1>a, <1>d DEF ExclusionInv, OutputExclusive, ClientReading, LockStep, ClientReadError, Return, Outcome
  <2>2. RequestFresh'
    BY <1>19, <1>a, <1>d, <1>e DEF LockStep, RequestFresh, ClientReadError, Return, Outcome
  <2>3. AnswerFresh'
    BY <1>19, <1>a, <1>d, <1>e DEF ExclusionInv, OutputExclusive, ClientReading,
       LockStep, RequestFresh, AnswerFresh, ClientReadError, Return, Outcome
  <2> QED
    BY <2>1, <2>2, <2>3
<1>20. CASE ServerTop
  <2>1. LockStep'
    BY <1>20, <1>a, <1>d DEF ExclusionInv, OutputExclusive, ClientReading, LockStep, ServerTop
  <2>2. RequestFresh'
    BY <1>20, <1>a, <1>d, <1>e DEF LockStep, RequestFresh, ServerTop
  <2>3. AnswerFresh'
    BY <1>20, <1>a, <1>d, <1>e DEF ExclusionInv, OutputExclusive, ClientReading,
       LockStep, RequestFresh, AnswerFresh, ServerTop
  <2> QED
    BY <2>1, <2>2, <2>3
<1>21. CASE ServerSpinHit
  <2>1. LockStep'
    BY <1>21, <1>a, <1>d DEF ExclusionInv, OutputExclusive, ClientReading, LockStep, ServerSpinHit
  <2>2. RequestFresh'
    BY <1>21, <1>a, <1>d, <1>e DEF LockStep, RequestFresh, ServerSpinHit
  <2>3. AnswerFresh'
    BY <1>21, <1>a, <1>d, <1>e DEF ExclusionInv, OutputExclusive, ClientReading,
       LockStep, RequestFresh, AnswerFresh, ServerSpinHit
  <2> QED
    BY <2>1, <2>2, <2>3
<1>22. CASE ServerSpinEnds
  <2>1. LockStep'
    BY <1>22, <1>a, <1>d DEF ExclusionInv, OutputExclusive, ClientReading, LockStep, ServerSpinEnds
  <2>2. RequestFresh'
    BY <1>22, <1>a, <1>d, <1>e DEF LockStep, RequestFresh, ServerSpinEnds
  <2>3. AnswerFresh'
    BY <1>22, <1>a, <1>d, <1>e DEF ExclusionInv, OutputExclusive, ClientReading,
       LockStep, RequestFresh, AnswerFresh, ServerSpinEnds
  <2> QED
    BY <2>1, <2>2, <2>3
<1>23. CASE ServerWakes
  <2>1. LockStep'
    BY <1>23, <1>a, <1>d DEF ExclusionInv, OutputExclusive, ClientReading, LockStep, ServerWakes
  <2>2. RequestFresh'
    BY <1>23, <1>a, <1>d, <1>e DEF LockStep, RequestFresh, ServerWakes
  <2>3. AnswerFresh'
    BY <1>23, <1>a, <1>d, <1>e DEF ExclusionInv, OutputExclusive, ClientReading,
       LockStep, RequestFresh, AnswerFresh, ServerWakes
  <2> QED
    BY <2>1, <2>2, <2>3
<1>24. CASE ServerLoad
  <2>1. LockStep'
    BY <1>24, <1>a, <1>d DEF ExclusionInv, OutputExclusive, ClientReading, LockStep, ServerLoad
  <2>2. RequestFresh'
    BY <1>24, <1>a, <1>d, <1>e DEF LockStep, RequestFresh, ServerLoad
  <2>3. AnswerFresh'
    BY <1>24, <1>a, <1>d, <1>e DEF ExclusionInv, OutputExclusive, ClientReading,
       LockStep, RequestFresh, AnswerFresh, ServerLoad
  <2> QED
    BY <2>1, <2>2, <2>3
<1>25. CASE ServerClaim
  <2>1. LockStep'
    BY <1>25, <1>a, <1>d DEF ExclusionInv, OutputExclusive, ClientReading, LockStep, ServerClaim
  <2>2. RequestFresh'
    BY <1>25, <1>a, <1>d, <1>e DEF LockStep, RequestFresh, ServerClaim
  <2>3. AnswerFresh'
    BY <1>25, <1>a, <1>d, <1>e DEF ExclusionInv, OutputExclusive, ClientReading,
       LockStep, RequestFresh, AnswerFresh, ServerClaim
  <2> QED
    BY <2>1, <2>2, <2>3
<1>26. CASE ServerReadLen
  <2>1. LockStep'
    BY <1>26, <1>a, <1>d DEF ExclusionInv, OutputExclusive, ClientReading, LockStep, ServerReadLen
  <2>2. RequestFresh'
    BY <1>26, <1>a, <1>d, <1>e DEF LockStep, RequestFresh, ServerReadLen
  <2>3. AnswerFresh'
    BY <1>26, <1>a, <1>d, <1>e DEF ExclusionInv, OutputExclusive, ClientReading,
       LockStep, RequestFresh, AnswerFresh, ServerReadLen
  <2> QED
    BY <2>1, <2>2, <2>3
<1>27. CASE ServerReadHead
  <2>1. LockStep'
    BY <1>27, <1>a, <1>d DEF ExclusionInv, OutputExclusive, ClientReading, LockStep, ServerReadHead
  <2>2. RequestFresh'
    BY <1>27, <1>a, <1>d, <1>e DEF LockStep, RequestFresh, ServerReadHead
  <2>3. AnswerFresh'
    BY <1>27, <1>a, <1>d, <1>e DEF ExclusionInv, OutputExclusive, ClientReading,
       LockStep, RequestFresh, AnswerFresh, ServerReadHead
  <2> QED
    BY <2>1, <2>2, <2>3
<1>28. CASE ServerReadTail
  <2>1. LockStep'
    BY <1>28, <1>a, <1>d DEF ExclusionInv, OutputExclusive, ClientReading, LockStep, ServerReadTail
  <2>2. RequestFresh'
    BY <1>28, <1>a, <1>d, <1>e DEF LockStep, RequestFresh, ServerReadTail
  <2>3. AnswerFresh'
    BY <1>28, <1>a, <1>d, <1>e DEF ExclusionInv, OutputExclusive, ClientReading,
       LockStep, RequestFresh, AnswerFresh, ServerReadTail
  <2> QED
    BY <2>1, <2>2, <2>3
<1>29. CASE ServerDispatchError
  <2>1. LockStep'
    BY <1>29, <1>a, <1>d DEF ExclusionInv, OutputExclusive, ClientReading, LockStep, ServerDispatchError
  <2>2. RequestFresh'
    BY <1>29, <1>a, <1>d, <1>e DEF LockStep, RequestFresh, ServerDispatchError
  <2>3. AnswerFresh'
    BY <1>29, <1>a, <1>d, <1>e DEF ExclusionInv, OutputExclusive, ClientReading,
       LockStep, RequestFresh, AnswerFresh, ServerDispatchError
  <2> QED
    BY <2>1, <2>2, <2>3
<1>30. CASE \E fits \in BOOLEAN : ServerDispatch(fits)
  <2>1. LockStep'
    BY <1>30, <1>a, <1>d DEF ExclusionInv, OutputExclusive, ClientReading, LockStep, ServerDispatch, MaySucceed, IdCell, ArgsCell
  <2>2. RequestFresh'
    BY <1>30, <1>a, <1>d, <1>e DEF LockStep, RequestFresh, ServerDispatch, MaySucceed, IdCell, ArgsCell
  <2>3. AnswerFresh'
    BY <1>30, <1>a, <1>d, <1>e DEF ExclusionInv, OutputExclusive, ClientReading,
       LockStep, RequestFresh, AnswerFresh, ServerDispatch, MaySucceed, IdCell, ArgsCell
  <2> QED
    BY <2>1, <2>2, <2>3
<1>31. CASE ServerWriteBody
  <2>1. LockStep'
    BY <1>31, <1>a, <1>d DEF ExclusionInv, OutputExclusive, ClientReading, LockStep, ServerWriteBody
  <2>2. RequestFresh'
    BY <1>31, <1>a, <1>d, <1>e DEF LockStep, RequestFresh, ServerWriteBody
  <2>3. AnswerFresh'
    BY <1>31, <1>a, <1>d, <1>e DEF ExclusionInv, OutputExclusive, ClientReading,
       LockStep, RequestFresh, AnswerFresh, ServerWriteBody
  <2> QED
    BY <2>1, <2>2, <2>3
<1>32. CASE ServerWriteLen
  <2>1. LockStep'
    BY <1>32, <1>a, <1>d DEF ExclusionInv, OutputExclusive, ClientReading, LockStep, ServerWriteLen
  <2>2. RequestFresh'
    BY <1>32, <1>a, <1>d, <1>e DEF LockStep, RequestFresh, ServerWriteLen
  <2>3. AnswerFresh'
    BY <1>32, <1>a, <1>d, <1>e DEF ExclusionInv, OutputExclusive, ClientReading,
       LockStep, RequestFresh, AnswerFresh, ServerWriteLen
  <2> QED
    BY <2>1, <2>2, <2>3
<1>33. CASE ServerPublish
  <2>1. LockStep'
    BY <1>33, <1>a, <1>d DEF ExclusionInv, OutputExclusive, ClientReading, LockStep, ServerPublish
  <2>2. RequestFresh'
    BY <1>33, <1>a, <1>d, <1>e DEF LockStep, RequestFresh, AnswerFresh, ServerPublish
  <2>3. AnswerFresh'
    BY <1>33, <1>a, <1>d, <1>e DEF ExclusionInv, OutputExclusive, ClientReading,
       LockStep, RequestFresh, AnswerFresh, ServerPublish
  <2> QED
    BY <2>1, <2>2, <2>3
<1>34. CASE ServerSignal
  <2>1. LockStep'
    BY <1>34, <1>a, <1>d DEF ExclusionInv, OutputExclusive, ClientReading, LockStep, ServerSignal
  <2>2. RequestFresh'
    BY <1>34, <1>a, <1>d, <1>e DEF LockStep, RequestFresh, ServerSignal
  <2>3. AnswerFresh'
    BY <1>34, <1>a, <1>d, <1>e DEF ExclusionInv, OutputExclusive, ClientReading,
       LockStep, RequestFresh, AnswerFresh, ServerSignal
  <2> QED
    BY <2>1, <2>2, <2>3
<1>35. CASE CtrlC
  <2>1. LockStep'
    BY <1>35, <1>a, <1>d DEF ExclusionInv, OutputExclusive, ClientReading, LockStep, CtrlC
  <2>2. RequestFresh'
    BY <1>35, <1>a, <1>d, <1>e DEF LockStep, RequestFresh, CtrlC
  <2>3. AnswerFresh'
    BY <1>35, <1>a, <1>d, <1>e DEF ExclusionInv, OutputExclusive, ClientReading,
       LockStep, RequestFresh, AnswerFresh, CtrlC
  <2> QED
    BY <2>1, <2>2, <2>3
<1>36. CASE ServerCrash
  <2>1. LockStep'
    BY <1>36, <1>a, <1>d DEF ExclusionInv, OutputExclusive, ClientReading, LockStep, ServerCrash
  <2>2. RequestFresh'
    BY <1>36, <1>a, <1>d, <1>e DEF LockStep, RequestFresh, ServerCrash
  <2>3. AnswerFresh'
    BY <1>36, <1>a, <1>d, <1>e DEF ExclusionInv, OutputExclusive, ClientReading,
       LockStep, RequestFresh, AnswerFresh, ServerCrash
  <2> QED
    BY <2>1, <2>2, <2>3
<1>37. CASE ServerRestart
  <2>1. LockStep'
    BY <1>37, <1>a, <1>d DEF ExclusionInv, OutputExclusive, ClientReading, LockStep, ServerRestart
  <2>2. RequestFresh'
    BY <1>37, <1>a, <1>d, <1>e DEF LockStep, RequestFresh, ServerRestart
  <2>3. AnswerFresh'
    BY <1>37, <1>a, <1>d, <1>e DEF ExclusionInv, OutputExclusive, ClientReading,
       LockStep, RequestFresh, AnswerFresh, ServerRestart
  <2> QED
    BY <2>1, <2>2, <2>3
<1>38. CASE ServerResetIn
  <2>1. LockStep'
    BY <1>38, <1>a, <1>d DEF ExclusionInv, OutputExclusive, ClientReading, LockStep, ServerResetIn
  <2>2. RequestFresh'
    BY <1>38, <1>a, <1>d, <1>e DEF LockStep, RequestFresh, ServerResetIn
  <2>3. AnswerFresh'
    BY <1>38, <1>a, <1>d, <1>e DEF ExclusionInv, OutputExclusive, ClientReading,
       LockStep, RequestFresh, AnswerFresh, ServerResetIn
  <2> QED
    BY <2>1, <2>2, <2>3
<1>39. CASE ServerResetOut
  <2>1. LockStep'
    BY <1>39, <1>a, <1>d DEF ExclusionInv, OutputExclusive, ClientReading, LockStep, ServerResetOut
  <2>2. RequestFresh'
    BY <1>39, <1>a, <1>d, <1>e DEF LockStep, RequestFresh, ServerResetOut
  <2>3. AnswerFresh'
    BY <1>39, <1>a, <1>d, <1>e DEF ExclusionInv, OutputExclusive, ClientReading,
       LockStep, RequestFresh, AnswerFresh, ServerResetOut
  <2> QED
    BY <2>1, <2>2, <2>3
<1>40. CASE ServerResetState
  <2>1. LockStep'
    BY <1>40, <1>a, <1>d DEF ExclusionInv, OutputExclusive, ClientReading, LockStep, ServerResetState
  <2>2. RequestFresh'
    BY <1>40, <1>a, <1>d, <1>e DEF LockStep, RequestFresh, ServerResetState
  <2>3. AnswerFresh'
    BY <1>40, <1>a, <1>d, <1>e DEF ExclusionInv, OutputExclusive, ClientReading,
       LockStep, RequestFresh, AnswerFresh, ServerResetState
  <2> QED
    BY <2>1, <2>2, <2>3
<1>41. CASE UNCHANGED vars
  BY <1>41, <1>d DEF vars, LockStep, RequestFresh, AnswerFresh
<1> QED
  BY <1>b, <1>1, <1>2, <1>3, <1>4, <1>5, <1>6, <1>7, <1>8, <1>9, <1>10, <1>11,
     <1>12, <1>13, <1>14, <1>15, <1>16, <1>17, <1>18, <1>19, <1>20, <1>21, <1>22,
     <1>23, <1>24, <1>25, <1>26, <1>27, <1>28, <1>29, <1>30, <1>31, <1>32, <1>33,
     <1>34, <1>35, <1>36, <1>37, <1>38, <1>39, <1>40, <1>41
     DEF Next, ClientStep, ServerStep

\* Until a deadline expires every successful call returned the answer to its own
\* request, for any number of calls, crashes and restarts.
THEOREM OwnAnswerHolds == Spec => []OwnAnswerUntilTimeout
<1>1. UntilTimeoutInv => OwnAnswerUntilTimeout
  BY DEF UntilTimeoutInv, AnswerFresh, OwnAnswerUntilTimeout
<1> QED
  BY TypeInit, TypeStep, ExclusionInit, ExclusionStep, UntilTimeoutInit, UntilTimeoutStep,
     <1>1, PTL DEF Spec

\* Until a deadline expires no request runs twice, for any number of calls,
\* crashes and restarts.
THEOREM AtMostOnceHolds == Spec => []AtMostOnceUntilTimeout
<1>1. UntilTimeoutInv => AtMostOnceUntilTimeout
  BY DEF UntilTimeoutInv, RequestFresh, AtMostOnceUntilTimeout
<1> QED
  BY TypeInit, TypeStep, ExclusionInit, ExclusionStep, UntilTimeoutInit, UntilTimeoutStep,
     <1>1, PTL DEF Spec

\* The mailbox is exact until a deadline expires: send_raw returns the answer to its
\* own request and the server executes no request twice.
THEOREM ExactUntilTimeoutHolds == Spec => []ExactUntilTimeout
<1>1. OwnAnswerUntilTimeout /\ AtMostOnceUntilTimeout => ExactUntilTimeout
  BY DEF ExactUntilTimeout
<1> QED
  BY OwnAnswerHolds, AtMostOnceHolds, <1>1, PTL
-----------------------------------------------------------------------------
\* Whatever deadlines expire: a request that was read whole has one number in all its
\* cells, so a body names the call it answers, and the id check compares that call
\* with the current one.
BodiesWhole ==
    Format = "json" /\ ~tornRead =>
        /\ outBody.id = outBody.of /\ resp.body.id = resp.body.of
        /\ \A r \in Calls : answers[r].kind = "ok" => answers[r].of = r

LEMMA BodiesWholeInit == Init => BodiesWhole
BY DEF Init, BodiesWhole, NoBody, Outcome

LEMMA BodiesWholeStep == TypeInv /\ BodiesWhole /\ [Next]_vars => BodiesWhole'
<1> SUFFICES ASSUME TypeInv, BodiesWhole, [Next]_vars, Format = "json", ~tornRead' PROVE BodiesWhole'
  BY DEF BodiesWhole
<1> USE DEF memVars, inputVars, clientVars, serverVars, faultVars
\* A call ends with an outcome that is its own, or not "ok".
<1>1. ASSUME NEW o, Return(o), o.kind = "ok" => o.of = cur, UNCHANGED <<outBody, resp, tornRead, cur>>
      PROVE  BodiesWhole'
  <2>1. answers \in [Calls -> Outcomes]
    BY DEF TypeInv, TypeOK
  <2>. QED BY <1>1, <2>1 DEF Return, BodiesWhole
<1>2. CASE ClientReadLen \/ ClientReadLenError \/ ClientReadError
  <2>1. CASE answers' = answers
    BY <1>2, <2>1 DEF ClientReadLen, ClientReadLenError, ClientReadError, BodiesWhole
  <2>2. CASE \E n : Return(Outcome("error", n))
    BY <1>1, <1>2, <2>2 DEF ClientReadLen, ClientReadLenError, ClientReadError, Outcome
  <2>. QED BY <1>2, <2>1, <2>2 DEF ClientReadLen, ClientReadLenError, ClientReadError
<1>3. CASE ClientReadBody
  <2>1. tornRead' = tornRead /\ outBody.id = outBody.of
    BY <1>3 DEF ClientReadBody, BodiesWhole
  <2>2. Accept(outBody).kind = "ok" => Accept(outBody).of = cur
    BY <2>1 DEF Accept, Outcome
  <2>. QED BY <1>1, <1>3, <2>2 DEF ClientReadBody
<1>4. CASE ClientRefuse \/ ClientResetTimeout
  <2>1. answers \in [Calls -> Outcomes]
    BY DEF TypeInv, TypeOK
  <2>. QED BY <1>4, <2>1 DEF ClientRefuse, ClientResetTimeout, Outcome, BodiesWhole
<1>5. CASE ServerDispatchError
  BY <1>5 DEF ServerDispatchError, NoBody, BodiesWhole
<1>6. CASE \E fits \in BOOLEAN : ServerDispatch(fits)
  <2>1. PICK fits \in BOOLEAN : ServerDispatch(fits)
    BY <1>6
  <2>2. ~tornRead /\ ~Torn(raw)
    BY <2>1, Zenon DEF ServerDispatch
  <2>3. IdCell(raw) = ArgsCell(raw)
    BY <2>1, <2>2 DEF ServerDispatch, MaySucceed, Torn, IdCell, ArgsCell
  <2>4. resp'.body = [id |-> IdCell(raw), of |-> ArgsCell(raw)]
    BY <2>1 DEF ServerDispatch
  <2>. QED BY <2>1, <2>2, <2>3, <2>4 DEF ServerDispatch, BodiesWhole
<1>7. CASE ServerWriteBody
  BY <1>7 DEF ServerWriteBody, BodiesWhole
<1>8. ASSUME UNCHANGED <<outBody, resp, tornRead, answers>> PROVE BodiesWhole'
  BY <1>8 DEF BodiesWhole
<1>9. CASE ClientWriteLen \/ ClientDeadline \/ CtrlC \/ ServerCrash \/ UNCHANGED vars
  BY <1>8, <1>9 DEF ClientWriteLen, ClientDeadline, CtrlC, ServerCrash, vars
<1>10. CASE \/ ClientWriteHead \/ ClientWriteTail \/ ClientStoreReady \/ ClientSetEvent \/ ClientSeesAnswer
            \/ ClientBlocks \/ ClientWakes \/ ClientTimesOut \/ ClientDrainTimeout \/ ClientLoad
            \/ ClientDrain \/ ClientReset
  BY <1>8, <1>10 DEF ClientWriteHead, ClientWriteTail, ClientStoreReady, ClientSetEvent, ClientSeesAnswer,
     ClientBlocks, ClientWakes, ClientTimesOut, ClientDrainTimeout, ClientLoad, ClientDrain, ClientReset
<1>11. CASE \/ ServerTop \/ ServerSpinHit \/ ServerSpinEnds \/ ServerWakes \/ ServerLoad \/ ServerClaim
            \/ ServerReadLen \/ ServerReadHead \/ ServerReadTail \/ ServerWriteLen \/ ServerPublish
            \/ ServerSignal \/ ServerRestart \/ ServerResetIn \/ ServerResetOut \/ ServerResetState
  BY <1>8, <1>11 DEF ServerTop, ServerSpinHit, ServerSpinEnds, ServerWakes, ServerLoad, ServerClaim,
     ServerReadLen, ServerReadHead, ServerReadTail, ServerWriteLen, ServerPublish, ServerSignal,
     ServerRestart, ServerResetIn, ServerResetOut, ServerResetState
<1>. QED BY <1>2, <1>3, <1>4, <1>5, <1>6, <1>7, <1>9, <1>10, <1>11 DEF Next, ClientStep, ServerStep

\* JsonShmemTransport's id check, for any number of calls, deadlines, crashes and signals: as long
\* as the server has read no mixture of two requests, an answer that is accepted is the caller's own.
THEOREM JsonAnswerOwnHolds == Spec => []JsonAnswerOwnUnlessTorn
<1>1. BodiesWhole => JsonAnswerOwnUnlessTorn
  BY DEF BodiesWhole, JsonAnswerOwnUnlessTorn
<1>. QED BY TypeInit, TypeStep, BodiesWholeInit, BodiesWholeStep, <1>1, PTL DEF Spec
=============================================================================
