---------------------------- MODULE EdgeCommands ----------------------------
(***************************************************************************)
(* Commands to one plant gateway (edge/services.py, edge/api.py,           *)
(* edge_agent/agent.py).  The MES queues a command; the agent pulls what   *)
(* is queued, runs each command and acknowledges it with the result; what  *)
(* is not acknowledged expires.  Pulls and acknowledgements are calls      *)
(* whose request or answer may be lost, and the agent may die.             *)
(***************************************************************************)
EXTENDS Integers, FiniteSets

CONSTANTS
  Commands,   \* commands issued to the gateway: a bound
  Pulls,      \* pull calls in flight or in process at once: a bound
  NoPull,     \* the agent waits for no pull
  NoCommand   \* the agent runs no command

ASSUME NoneAssumption == NoPull \notin Pulls /\ NoCommand \notin Commands

VARIABLES
  status,    \* EdgeCommand.status, "ABSENT" while there is no row
  issuing,   \* commands created by queue_command and still without expires_at
  dated,     \* commands with an expires_at
  overdue,   \* those whose expires_at is past
  pulls,     \* the pull calls, from the request to the answer
  acks,      \* the acknowledgements on their way or in process
  agent,     \* what the agent is doing
  runs,      \* history: how often the agent ran a command
  result     \* history: the result of its last run

server == <<status, issuing, dated, overdue>>
plant == <<agent, runs, result>>
vars == <<server, pulls, acks, plant>>

CommandStatus == {"QUEUED", "SENT", "ACKED", "FAILED", "EXPIRED"}
Closed == {"ACKED", "FAILED", "EXPIRED"}

Pull == [phase : {"free", "sent", "expired", "answered"}, got : SUBSET Commands]
Free == [phase |-> "free", got |-> {}]

Ack == [command : Commands, succeeded : BOOLEAN, phase : {"sent", "checked"}]

Agent == [pc : {"dead", "idle", "pulling", "running", "ran", "acking"},
          pull : Pulls \union {NoPull},            \* the pull it waits for
          hand : SUBSET Commands,                  \* commands it is yet to run
          command : Commands \union {NoCommand}]   \* the one it has run

At(pc) == [pc |-> pc, pull |-> NoPull, hand |-> {}, command |-> NoCommand]

TypeOK ==
  /\ status \in [Commands -> CommandStatus \union {"ABSENT"}]
  /\ issuing \subseteq Commands
  /\ dated \subseteq Commands
  /\ overdue \subseteq dated
  /\ pulls \in [Pulls -> Pull]
  /\ acks \subseteq Ack
  /\ agent \in Agent
  /\ runs \in [Commands -> Nat]
  /\ result \in [Commands -> BOOLEAN]

Init ==
  /\ status = [c \in Commands |-> "ABSENT"]
  /\ issuing = {}
  /\ dated = {}
  /\ overdue = {}
  /\ pulls = [p \in Pulls |-> Free]
  /\ acks = {}
  /\ agent = At("idle")
  /\ runs = [c \in Commands |-> 0]
  /\ result = [c \in Commands |-> FALSE]

(***************************************************************************)
(* queue_command: the row is committed before its expires_at is.           *)
(***************************************************************************)
Issue(c) ==
  /\ status[c] = "ABSENT"
  /\ status' = [status EXCEPT ![c] = "QUEUED"]
  /\ issuing' = issuing \union {c}
  /\ UNCHANGED <<dated, overdue, pulls, acks, plant>>

Date(c) ==
  /\ c \in issuing
  /\ issuing' = issuing \ {c}
  /\ dated' = dated \union {c}
  /\ UNCHANGED <<status, overdue, pulls, acks, plant>>

\* The request of queue_command dies between its two writes.
DieUndated(c) ==
  /\ c \in issuing
  /\ issuing' = issuing \ {c}
  /\ UNCHANGED <<status, dated, overdue, pulls, acks, plant>>

Elapse(c) ==
  /\ c \in dated \ overdue
  /\ overdue' = overdue \union {c}
  /\ UNCHANGED <<status, issuing, dated, pulls, acks, plant>>

(***************************************************************************)
(* The server's side: expire_commands, claim_commands, ack_command.        *)
(***************************************************************************)
ExpiredQueued ==
  [c \in Commands |-> IF c \in overdue /\ status[c] = "QUEUED" THEN "EXPIRED" ELSE status[c]]

ExpiredCancelled ==
  [c \in Commands |->
     IF c \in overdue /\ status[c] \in {"QUEUED", "SENT"} THEN "CANCELLED" ELSE status[c]]

\* One UPDATE: every row of these statuses that is past its time
Expired ==
  [c \in Commands |->
     IF c \in overdue /\ status[c] \in {"QUEUED", "SENT"} THEN "EXPIRED" ELSE status[c]]

\* expire_stale_commands, every five minutes
ExpireStale ==
  /\ status' = Expired
  /\ UNCHANGED <<issuing, dated, overdue, pulls, acks, plant>>

ExpireFirst(p) ==
  /\ pulls[p].phase = "sent"
  /\ status' = Expired
  /\ pulls' = [pulls EXCEPT ![p].phase = "expired"]
  /\ UNCHANGED <<issuing, dated, overdue, acks, plant>>

Queued == {c \in Commands : status[c] = "QUEUED"}

ClaimUnconfirmed(p) ==
  LET S == {c \in Commands : status[c] \in {"QUEUED", "SENT"}} IN
  /\ pulls[p].phase = "expired"
  /\ status' = [c \in Commands |-> IF c \in S THEN "SENT" ELSE status[c]]
  /\ pulls' = [pulls EXCEPT ![p] = [phase |-> "answered", got |-> S]]
  /\ UNCHANGED <<issuing, dated, overdue, acks, plant>>

\* select_for_update: of two claims at once only one gets a row.
Claim(p) ==
  /\ pulls[p].phase = "expired"
  /\ status' = [c \in Commands |-> IF c \in Queued THEN "SENT" ELSE status[c]]
  /\ pulls' = [pulls EXCEPT ![p] = [phase |-> "answered", got |-> Queued]]
  /\ UNCHANGED <<issuing, dated, overdue, acks, plant>>

\* ack_command refuses a command that is closed when the request reads it.
CheckAck(a) ==
  /\ a.phase = "sent"
  /\ acks' = (acks \ {a}) \union
       (IF status[a.command] \in {"ACKED", "EXPIRED"} THEN {}
        ELSE {[a EXCEPT !.phase = "checked"]})
  /\ UNCHANGED <<server, pulls, plant>>

WriteAckedAlways(a) ==
  /\ a.phase = "checked"
  /\ status' = [status EXCEPT ![a.command] = "ACKED"]
  /\ acks' = acks \ {a}
  /\ UNCHANGED <<issuing, dated, overdue, pulls, plant>>

WriteAck(a) ==
  /\ a.phase = "checked"
  /\ status' = [status EXCEPT ![a.command] = IF a.succeeded THEN "ACKED" ELSE "FAILED"]
  /\ acks' = acks \ {a}
  /\ UNCHANGED <<issuing, dated, overdue, pulls, plant>>

(***************************************************************************)
(* The network and dying workers.                                          *)
(***************************************************************************)
LosePull(p) ==
  /\ pulls[p].phase # "free"
  /\ pulls' = [pulls EXCEPT ![p] = Free]
  /\ UNCHANGED <<server, acks, plant>>

LoseAck(a) ==
  /\ acks' = acks \ {a}
  /\ UNCHANGED <<server, pulls, plant>>

(***************************************************************************)
(* The agent: _commands and _run_command, one call at a time.              *)
(***************************************************************************)
SendPull(p) ==
  /\ agent.pc = "idle"
  /\ pulls[p].phase = "free"
  /\ pulls' = [pulls EXCEPT ![p].phase = "sent"]
  /\ agent' = [At("pulling") EXCEPT !.pull = p]
  /\ UNCHANGED <<server, acks, runs, result>>

Receive(p) ==
  /\ agent.pc = "pulling" /\ agent.pull = p
  /\ pulls[p].phase = "answered"
  /\ agent' = IF pulls[p].got = {} THEN At("idle")
              ELSE [At("running") EXCEPT !.hand = pulls[p].got]
  /\ pulls' = [pulls EXCEPT ![p] = Free]
  /\ UNCHANGED <<server, acks, runs, result>>

\* The pull fails; the call may still be in process at the server.
GiveUpPull ==
  /\ agent.pc = "pulling"
  /\ agent' = At("idle")
  /\ UNCHANGED <<server, pulls, acks, runs, result>>

Run(c) ==
  /\ agent.pc = "running"
  /\ c \in agent.hand
  /\ runs' = [runs EXCEPT ![c] = @ + 1]
  /\ \E ok \in BOOLEAN : result' = [result EXCEPT ![c] = ok]
  /\ agent' = [agent EXCEPT !.pc = "ran", !.command = c, !.hand = @ \ {c}]
  /\ UNCHANGED <<server, pulls, acks>>

SendAck ==
  /\ agent.pc = "ran"
  /\ acks' = acks \union
       {[command |-> agent.command, succeeded |-> result[agent.command], phase |-> "sent"]}
  /\ agent' = [agent EXCEPT !.pc = "acking"]
  /\ UNCHANGED <<server, pulls, runs, result>>

\* Answered, refused or failed: the agent only logs it and goes on.
AckOver ==
  /\ agent.pc = "acking"
  /\ agent' = IF agent.hand = {} THEN At("idle")
              ELSE [At("running") EXCEPT !.hand = agent.hand]
  /\ UNCHANGED <<server, pulls, acks, runs, result>>

\* A power cut, or an error of the network that the agent does not handle
Die ==
  /\ agent.pc # "dead"
  /\ agent' = At("dead")
  /\ UNCHANGED <<server, pulls, acks, runs, result>>

Start ==
  /\ agent.pc = "dead"
  /\ agent' = At("idle")
  /\ UNCHANGED <<server, pulls, acks, runs, result>>

Next ==
  \/ \E c \in Commands : Issue(c) \/ Date(c) \/ DieUndated(c) \/ Elapse(c) \/ Run(c)
  \/ ExpireStale
  \/ \E p \in Pulls : \/ ExpireFirst(p) \/ Claim(p) \/ LosePull(p)
                      \/ SendPull(p) \/ Receive(p)
  \/ \E a \in acks : CheckAck(a) \/ WriteAck(a) \/ LoseAck(a)
  \/ GiveUpPull \/ SendAck \/ AckOver \/ Die \/ Start

Spec == Init /\ [][Next]_vars

\* Only the clock, the periodic task and the second write of queue_command are counted
\* on: the plant may be off the network for ever.
FairSpec ==
  /\ Spec
  /\ WF_vars(ExpireStale)
  /\ \A c \in Commands : WF_vars(Elapse(c)) /\ WF_vars(Date(c) \/ DieUndated(c))

(***************************************************************************)
(* Properties that hold.                                                   *)
(***************************************************************************)
\* A command is run once at most, whatever is lost and whoever dies: it is never handed
\* out twice, so a lost answer or acknowledgement is not repeated.
RunOnce == \A c \in Commands : runs[c] <= 1

\* A command that is closed with a result was run with that result, although the
\* acknowledgement may come late and cross the expiry.
ResultIsReal ==
  \A c \in Commands : /\ status[c] = "ACKED" => runs[c] > 0 /\ result[c]
                      /\ status[c] = "FAILED" => runs[c] > 0 /\ ~result[c]

\* A command with an expiry is closed in the end, even if the agent never comes back.
DatedCloses == \A c \in Commands : c \in dated ~> status[c] \in Closed
=============================================================================
