----------------------------- MODULE MCChannels -----------------------------
(***************************************************************************)
(* Five models on small instances: the ring (SpscRing), the snapshot bridge  *)
(* (TripleBuffer), the reclamation of voices that rests on both              *)
(* (VoiceReclaim, whose Next and Fairness are this module's own), a streamed *)
(* clip (StreamVoice) and the packets of one sender at their receiver        *)
(* (AckWindow).  They share nothing: a behaviour is one of them, chosen at   *)
(* its start, and the others stand still in a state of their own beginning.  *)
(***************************************************************************)
EXTENDS SpscRing, TripleBuffer, VoiceReclaim, StreamVoice, AckWindow

VARIABLE running   \* the model this behaviour is of

MCInit == /\ running \in {"ring", "bridge", "reclaim", "stream", "acks"}
          /\ RingInit /\ BridgeInit /\ Init /\ StreamInit /\ AckInit
          /\ running # "reclaim" => driven = FALSE
          /\ running # "stream" => loop = TRUE

RingStep == /\ running = "ring" /\ RingNext
            /\ UNCHANGED <<running, bridgeVars, vars, streamVars, ackVars>>
BridgeStep == /\ running = "bridge" /\ BridgeNext
              /\ UNCHANGED <<running, ringVars, vars, streamVars, ackVars>>
Reclaim(A) == /\ running = "reclaim" /\ A
              /\ UNCHANGED <<running, ringVars, bridgeVars, streamVars, ackVars>>
ReclaimStep == Reclaim(Next)
Streaming(A) == /\ running = "stream" /\ A
                /\ UNCHANGED <<running, ringVars, bridgeVars, vars, ackVars>>
StreamStep == Streaming(Fill) \/ Streaming(Play)
AckStep == /\ running = "acks" /\ AckNext
           /\ UNCHANGED <<running, ringVars, bridgeVars, vars, streamVars>>

MCNext == RingStep \/ BridgeStep \/ ReclaimStep \/ StreamStep \/ AckStep

MCVars == <<running, ringVars, bridgeVars, vars, streamVars, ackVars>>
\* The fairness of VoiceReclaim's FairSpec and of StreamVoice's StreamSpec.
MCSpec ==
  /\ MCInit /\ [][MCNext]_MCVars
  /\ WF_MCVars(Reclaim(Pump)) /\ WF_MCVars(Reclaim(MixSlot \/ EndBlock))
  /\ SF_MCVars(Reclaim(StartBlock)) /\ WF_MCVars(Reclaim(TakeCommand))
  /\ WF_MCVars(Streaming(Fill)) /\ WF_MCVars(Streaming(Play))
=============================================================================
