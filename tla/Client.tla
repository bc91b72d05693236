-------------------------------- MODULE Client --------------------------------
(***************************************************************************)
(* The parts of a client in and around the tower stack that share no state *)
(* with each other: how it is given a provider (Registry), how a call is   *)
(* sent and sent again (Transport), how a streamed answer is decoded (Sse, *)
(* Frames), how a conversation is put into a provider's terms and back     *)
(* (Chat), how realtime events are relayed (Realtime), how guardrails      *)
(* decide (Guards), how money is counted (Spending) and how a cache        *)
(* answers similar requests (Semantic).  A behaviour is one of one part,   *)
(* the others at rest: what holds of each part alone holds of them         *)
(* together.                                                               *)
(***************************************************************************)
EXTENDS Transport, Sse, Frames, Chat, Registry, Realtime, Guards, Spending, Semantic

VARIABLE part   \* the part a behaviour is of

Parts == {"call", "sse", "frames", "chat", "registry", "realtime", "guards", "spending", "semantic"}

clientVars == <<part, callVars, sse, frames, chat, reg, relay, guards, spending, tier>>

ClientInit ==
  /\ part \in Parts
  /\ CallInit /\ RegInit /\ RelayInit /\ GuardsInit
  /\ IF part = "sse" THEN SseInit ELSE sse = NoStream(<<>>)
  /\ IF part = "frames" THEN FramesInit ELSE frames = NoFrames(<<>>)
  /\ IF part = "chat" THEN ChatInit ELSE chat = NoChat(CHOOSE p \in Providers : TRUE)
  /\ IF part = "spending" THEN SpendingInit ELSE spending = NewSpending(CHOOSE s \in Schemes : TRUE)
  /\ IF part = "semantic" THEN TierInit ELSE tier = NewTier(CHOOSE s \in Setups : TRUE)

CallStep == part = "call" /\ CallNext /\ UNCHANGED <<part, sse, frames, chat, reg, relay, guards, spending, tier>>
SseStep == part = "sse" /\ SseNext /\ UNCHANGED <<part, callVars, frames, chat, reg, relay, guards, spending, tier>>
FramesStep == part = "frames" /\ FramesNext /\ UNCHANGED <<part, callVars, sse, chat, reg, relay, guards, spending, tier>>
ChatStep == part = "chat" /\ ChatNext /\ UNCHANGED <<part, callVars, sse, frames, reg, relay, guards, spending, tier>>
RegistryStep == part = "registry" /\ RegNext /\ UNCHANGED <<part, callVars, sse, frames, chat, relay, guards, spending, tier>>
RealtimeStep == part = "realtime" /\ RelayNext /\ UNCHANGED <<part, callVars, sse, frames, chat, reg, guards, spending, tier>>
GuardsStep == part = "guards" /\ GuardsNext /\ UNCHANGED <<part, callVars, sse, frames, chat, reg, relay, spending, tier>>
SpendingStep == part = "spending" /\ SpendingNext /\ UNCHANGED <<part, callVars, sse, frames, chat, reg, relay, guards, tier>>
SemanticStep == part = "semantic" /\ TierNext /\ UNCHANGED <<part, callVars, sse, frames, chat, reg, relay, guards, spending>>

\* What goes on by itself: an answer or its failure comes, a delay passes.
Proceeding ==
  part = "call" /\ Proceeds /\ UNCHANGED <<part, sse, frames, chat, reg, relay, guards, spending, tier>>

ClientNext ==
  \/ CallStep \/ SseStep \/ FramesStep \/ ChatStep
  \/ RegistryStep \/ RealtimeStep \/ GuardsStep \/ SpendingStep \/ SemanticStep

\* What may happen.
ClientSafety == ClientInit /\ [][ClientNext]_clientVars

\* reqwest gives up an answer after its timeout and tokio's timers fire.
ClientSpec == ClientSafety /\ WF_clientVars(Proceeding)

===============================================================================
