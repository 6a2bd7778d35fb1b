------------------------- MODULE EdgeCommands_proofs -------------------------
(***************************************************************************)
(* For any number of commands and of pulls at once: a command is run once  *)
(* at most, and closed with the result of that run.  The argument is that  *)
(* a command is in one hand at a time, and in none before it is claimed    *)
(* nor after it was run.                                                   *)
(***************************************************************************)
EXTENDS EdgeCommands, TLAPS

\* A command that is out was claimed, was not run, and is in no other hand.
OneHand ==
  /\ \A p \in Pulls : \A c \in pulls[p].got :
       /\ runs[c] = 0 /\ status[c] \notin {"ABSENT", "QUEUED"}
       /\ c \notin agent.hand
       /\ \A q \in Pulls \ {p} : c \notin pulls[q].got
  /\ \A c \in agent.hand : runs[c] = 0 /\ status[c] \notin {"ABSENT", "QUEUED"}

\* What was run was claimed before, and was not run again.
RunWasClaimed ==
  \A c \in Commands : runs[c] # 0 => runs[c] = 1 /\ status[c] \notin {"ABSENT", "QUEUED"}

\* What the agent is about to acknowledge was run, and what is on its way says how it ended.
AckIsReal ==
  /\ agent.pc = "ran" => agent.command \in Commands /\ runs[agent.command] # 0
  /\ \A a \in acks : runs[a.command] # 0 /\ a.succeeded = result[a.command]

CInv == TypeOK /\ OneHand /\ RunWasClaimed /\ AckIsReal /\ ResultIsReal

LEMMA InitCInv == Init => CInv
  BY NoneAssumption DEF Init, CInv, TypeOK, OneHand, RunWasClaimed, AckIsReal, ResultIsReal,
         Free, Pull, At, Agent, CommandStatus

\* queue_command only queues what did not exist, and nothing that expires is queued again.
LEMMA ServerCInv ==
  ASSUME CInv,
         \/ \E c \in Commands : Issue(c) \/ Date(c) \/ DieUndated(c) \/ Elapse(c)
         \/ ExpireStale
  PROVE  CInv'
<1> USE DEF CInv, TypeOK, OneHand, RunWasClaimed, AckIsReal, ResultIsReal, plant, server
<1>1. ASSUME NEW c \in Commands, Issue(c) PROVE CInv'
  BY <1>1 DEF Issue, CommandStatus, Pull, Agent
<1>2. ASSUME NEW c \in Commands, Date(c) \/ DieUndated(c) \/ Elapse(c) PROVE CInv'
  BY <1>2 DEF Date, DieUndated, Elapse
<1>3. CASE ExpireStale
  BY <1>3 DEF ExpireStale, Expired, CommandStatus, Pull, Agent
<1> QED BY <1>1, <1>2, <1>3

\* A pull expires what is late, then claims what is queued: nothing of it is in any hand.
LEMMA PullCInv ==
  ASSUME CInv, NEW p \in Pulls,
         ExpireFirst(p) \/ Claim(p) \/ LosePull(p) \/ SendPull(p) \/ Receive(p)
  PROVE  CInv'
<1> USE DEF CInv, TypeOK, OneHand, RunWasClaimed, AckIsReal, ResultIsReal, plant, server
<1>1. CASE ExpireFirst(p)
  BY <1>1 DEF ExpireFirst, Expired, CommandStatus, Pull, Agent
<1>2. CASE Claim(p)
  BY <1>2 DEF Claim, Queued, CommandStatus, Pull, Agent
<1>3. CASE LosePull(p)
  BY <1>3 DEF LosePull, Free, Pull, Agent
<1>4. CASE SendPull(p)
  BY <1>4 DEF SendPull, At, Pull, Agent
<1>5. CASE Receive(p)
  BY <1>5 DEF Receive, At, Free, Pull, Agent
<1> QED BY <1>1, <1>2, <1>3, <1>4, <1>5

\* A late acknowledgement may cross the expiry; it writes how the run ended all the same.
LEMMA AckCInv ==
  ASSUME CInv, NEW a \in acks, CheckAck(a) \/ WriteAck(a) \/ LoseAck(a)
  PROVE  CInv'
<1> USE DEF CInv, TypeOK, OneHand, RunWasClaimed, AckIsReal, ResultIsReal, plant, server
<1>1. CASE CheckAck(a)
  BY <1>1 DEF CheckAck, Ack
<1>2. CASE WriteAck(a)
  <2> DEFINE k == a.command
  <2>1. k \in Commands /\ runs[k] # 0 /\ a.succeeded = result[k] BY DEF Ack
  <2>2. /\ status' = [status EXCEPT ![k] = IF result[k] THEN "ACKED" ELSE "FAILED"]
        /\ acks' \subseteq acks
        /\ UNCHANGED <<issuing, dated, overdue, pulls, agent, runs, result>>
    BY <1>2, <2>1 DEF WriteAck
  <2> HIDE DEF k
  <2>3. TypeOK' BY <2>1, <2>2 DEF CommandStatus
  <2>4. OneHand' BY <2>1, <2>2 DEF Pull, Agent
  <2>5. RunWasClaimed' BY <2>1, <2>2
  <2>6. AckIsReal' BY <2>2
  <2>7. ResultIsReal' BY <2>1, <2>2
  <2> QED BY <2>3, <2>4, <2>5, <2>6, <2>7
<1>3. CASE LoseAck(a)
  BY <1>3 DEF LoseAck
<1> QED BY <1>1, <1>2, <1>3

\* The agent runs what is in its hand only; whatever it forgets is run by nobody.
LEMMA AgentCInv ==
  ASSUME CInv,
         \/ \E c \in Commands : Run(c)
         \/ GiveUpPull \/ SendAck \/ AckOver \/ Die \/ Start
  PROVE  CInv'
<1> USE DEF CInv, TypeOK, OneHand, RunWasClaimed, AckIsReal, ResultIsReal, plant, server
<1>1. ASSUME NEW c \in Commands, Run(c) PROVE CInv'
  <2>1. c \in agent.hand /\ runs[c] = 0 BY <1>1 DEF Run
  <2>2. PICK ok \in BOOLEAN : result' = [result EXCEPT ![c] = ok] BY <1>1 DEF Run
  <2>3. /\ runs' = [runs EXCEPT ![c] = runs[c] + 1]
        /\ agent' = [agent EXCEPT !.pc = "ran", !.command = c, !.hand = @ \ {c}]
        /\ UNCHANGED <<status, issuing, dated, overdue, pulls, acks>>
    BY <1>1 DEF Run
  <2>4. TypeOK'
    <3>1. agent' \in Agent BY <2>3 DEF Agent
    <3>2. runs' \in [Commands -> Nat] BY <2>3
    <3>3. result' \in [Commands -> BOOLEAN] BY <2>2
    <3> QED BY <2>3, <3>1, <3>2, <3>3
  <2>5. OneHand' BY <2>1, <2>3 DEF Pull, Agent
  <2>6. RunWasClaimed' BY <2>1, <2>3
  <2>7. AckIsReal' BY <2>1, <2>2, <2>3 DEF Ack, Agent
  <2>8. ResultIsReal' BY <2>1, <2>2, <2>3
  <2> QED BY <2>4, <2>5, <2>6, <2>7, <2>8
<1>2. CASE SendAck
  BY <1>2 DEF SendAck, Ack, Agent, Pull
<1>3. CASE GiveUpPull \/ AckOver \/ Die \/ Start
  BY <1>3, NoneAssumption DEF GiveUpPull, AckOver, Die, Start, At, Agent, Pull
<1> QED BY <1>1, <1>2, <1>3

\* Every step keeps the invariant.
LEMMA StepCInv == CInv /\ [Next]_vars => CInv'
<1> SUFFICES ASSUME CInv, [Next]_vars PROVE CInv' OBVIOUS
<1>1. CASE Next BY <1>1, ServerCInv, PullCInv, AckCInv, AgentCInv DEF Next
<1>2. CASE UNCHANGED vars
  BY <1>2 DEF vars, server, plant, CInv, TypeOK, OneHand, RunWasClaimed, AckIsReal, ResultIsReal
<1> QED BY <1>1, <1>2

\* The inductive invariant of the commands: who has a command in hand, and what was run.
THEOREM CommandsInvariance == Spec => []CInv
<1> QED BY InitCInv, StepCInv, PTL DEF Spec

\* Every variable keeps its type.
THEOREM TypeCorrect == Spec => []TypeOK
  BY CommandsInvariance, PTL DEF CInv

\* A command is run once at most, whatever is lost and whoever dies.
THEOREM RunOnceHolds == Spec => []RunOnce
<1>1. CInv => RunOnce BY DEF CInv, TypeOK, RunWasClaimed, RunOnce
<1> QED BY CommandsInvariance, <1>1, PTL

\* A command closed with a result was run, and ended so.
THEOREM ResultIsRealHolds == Spec => []ResultIsReal
  BY CommandsInvariance, PTL DEF CInv
=============================================================================
