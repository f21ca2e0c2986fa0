-------------------------- MODULE TrustPromptProofs --------------------------
(***************************************************************************)
(* The safety properties of TrustPrompt, for every number of handshakes,   *)
(* hosts, fingerprints and clicks.                                         *)
(***************************************************************************)
EXTENDS TrustPrompt, TLAPS

USE TrustAssumption

----------------------------------------------------------------------------
(* The parts of the inductive invariant.                                   *)

\* A check that has begun was presented a fingerprint.
Looked == \A c \in Checks : pc[c] # "idle" => print[c] \in Prints

\* Nobody outside of verify() knows a check that has not asked.
Asked ==
  \A c \in Checks : pc[c] \in {"idle", "prompt"} =>
    /\ slot # c /\ answer[c] = "none" /\ c \notin pending
    /\ \A k \in Clicks : about[k] # c
    /\ \A n \in 1..Len(events) : events[n] # c

\* A "trust" on its way to a check was clicked below that check's fingerprint,
\* and only such an answer leads to save().
Clicked ==
  \A c \in Checks :
    /\ (\E k \in Clicks : about[k] = c /\ says[k] = "trust") \/ answer[c] = "trust"
         => <<host[c], print[c]>> \in approved
    /\ pc[c] = "saving" => answer[c] = "trust"

\* A check is answered once, because its sender leaves the registry with the
\* answer; what it waits for has come, or nothing said to it has arrived yet.
Heard ==
  \A c \in Checks :
    /\ answer[c] # "none" => c \notin pending
    /\ pc[c] = "waiting" =>
         \/ answer[c] # "none"
         \/ c \in pending /\ \A k \in Clicks : about[k] = c => ipc[k] = "sent"

\* A click about no prompt was not made.
Made == \A k \in Clicks : ipc[k] = "none" => about[k] = NoCheck

\* Unless two of them overlapped, the running checks have a host each, whose
\* fingerprint is the one they found.
Uncrossed ==
  crossed \/ \A c \in Checks : pc[c] \in Verifying =>
    /\ known[host[c]] = old[c]
    /\ \A d \in Checks : pc[d] \in Verifying /\ host[d] = host[c] => d = c

IInv == /\ TypeOK /\ Looked /\ Asked /\ Clicked /\ Heard /\ Made /\ Uncrossed
        /\ OnlyApproved

CheckStep(c) ==
  \/ \E h \in Hosts, f \in Prints : Lookup(c, h, f)
  \/ Prompt(c) \/ Receive(c) \/ Save(c) \/ TimeOut(c)

ClickStep(k) ==
  \/ \E v \in {"trust", "refuse"} : Click(k, v)
  \/ Resolve(k) \/ Dismiss(k)

----------------------------------------------------------------------------
(* Types.                                                                  *)

LEMMA InitInv == Init => IInv
<1> SUFFICES ASSUME Init PROVE IInv
  OBVIOUS
<1>1. TypeOK
  <2>1. (CHOOSE h \in Hosts : TRUE) \in Hosts
    OBVIOUS
  <2>2. host \in [Checks -> Hosts]
    BY <2>1 DEF Init
  <2>3. \A h \in Hosts : known[h] # NoPrint => known[h] \in Prints
    BY DEF Init
  <2>4. approved \in SUBSET (Hosts \X Prints)
    BY <2>3 DEF Init
  <2>5. known \in [Hosts -> Prints \cup {NoPrint}] /\ events \in Seq(Checks)
    BY DEF Init
  <2>6. /\ pc \in [Checks -> {"idle"} \cup Verifying \cup Final]
        /\ answer \in [Checks -> {"none", "trust", "refuse"}]
    BY DEF Init
  <2>7. print \in [Checks -> Prints \cup {NoPrint}] /\ old \in [Checks -> Prints \cup {NoPrint}]
    BY DEF Init
  <2>8. /\ about \in [Clicks -> Checks \cup {NoCheck}] /\ says \in [Clicks -> {"trust", "refuse"}]
        /\ ipc \in [Clicks -> {"none", "sent", "returned", "done"}]
    BY DEF Init
  <2>9. QED  BY <2>2, <2>4, <2>5, <2>6, <2>7, <2>8 DEF Init, TypeOK
<1>2. Looked /\ Asked /\ Clicked /\ Heard /\ Made /\ Uncrossed /\ OnlyApproved
  BY DEF Init, Looked, Asked, Clicked, Heard, Made, Uncrossed, Verifying, OnlyApproved
<1>3. QED  BY <1>1, <1>2 DEF IInv

\* The prompt event is that of the check, which comes last.
LEMMA PromptEvents ==
  ASSUME TypeOK, NEW c \in Checks, Prompt(c)
  PROVE  /\ events' \in Seq(Checks)
         /\ \A n \in 1..Len(events') :
              events'[n] = c \/ (n \in 1..Len(events) /\ events'[n] = events[n])
<1>1. events \in Seq(Checks)
  BY DEF TypeOK
<1>2. events' = Append(events, c) \/ events' = events
  BY Zenon DEF Prompt
<1>3. CASE events' = Append(events, c)
  BY <1>1, <1>3
<1>4. CASE events' = events
  BY <1>1, <1>4
<1>5. QED  BY <1>2, <1>3, <1>4

LEMMA CheckTypes ==
  ASSUME TypeOK, Looked, NEW c \in Checks, CheckStep(c)
  PROVE  TypeOK' /\ Looked'
<1> USE DEF TypeOK, Looked, Verifying, Final, Goto, checkVars, viewVars, userVars
<1>1. ASSUME NEW h \in Hosts, NEW f \in Prints, Lookup(c, h, f) PROVE TypeOK' /\ Looked'
  <2>1. crossed' \in BOOLEAN
    BY <1>1, Zenon DEF Lookup
  <2>2. /\ old' \in [Checks -> Prints \cup {NoPrint}]
        /\ pc' \in [Checks -> {"idle"} \cup Verifying \cup Final]
        /\ \A d \in Checks \ {c} : pc'[d] = pc[d]
    BY <1>1 DEF Lookup, OldPrint
  <2>3. QED  BY <1>1, <2>1, <2>2 DEF Lookup
<1>2. CASE Prompt(c)
  <2>1. pc' = [pc EXCEPT ![c] = "waiting"] \/ pc' = [pc EXCEPT ![c] = "failed"]
    BY <1>2 DEF Prompt
  <2>2. QED  BY <1>2, <2>1, PromptEvents DEF Prompt, Registered
<1>3. CASE Receive(c)
  BY <1>3 DEF Receive
<1>4. CASE Save(c)
  <2>1. print[c] \in Prints
    BY <1>4 DEF Save
  <2>2. known' \in [Hosts -> Prints \cup {NoPrint}]
    BY <1>4, <2>1 DEF Save
  <2>3. pc' = [pc EXCEPT ![c] = "trusted"] \/ pc' = [pc EXCEPT ![c] = "failed"]
    BY <1>4 DEF Save
  <2>4. QED  BY <1>4, <2>2, <2>3 DEF Save
<1>5. CASE TimeOut(c)
  BY <1>5 DEF TimeOut
<1>6. QED  BY <1>1, <1>2, <1>3, <1>4, <1>5 DEF CheckStep

LEMMA ClickTypes ==
  ASSUME TypeOK, Looked, Asked, NEW k \in Clicks, ClickStep(k)
  PROVE  TypeOK' /\ Looked'
<1> USE DEF TypeOK, Looked, checkVars
<1>1. ASSUME NEW v \in {"trust", "refuse"}, Click(k, v) PROVE TypeOK' /\ Looked'
  <2>1. slot \in Checks /\ pc[slot] # "idle"
    BY <1>1 DEF Click, Asked
  <2>2. <<host[slot], print[slot]>> \in Hosts \X Prints
    BY <2>1
  <2>3. QED  BY <1>1, <2>1, <2>2 DEF Click
<1>2. CASE Resolve(k)
  BY <1>2 DEF Resolve, Addressee
<1>3. CASE Dismiss(k)
  BY <1>3 DEF Dismiss
<1>4. QED  BY <1>1, <1>2, <1>3 DEF ClickStep

----------------------------------------------------------------------------
(* The way of an answer, and what was approved.                            *)

LEMMA CheckHeard ==
  ASSUME TypeOK, Asked, Heard, Made, NEW c \in Checks, CheckStep(c)
  PROVE  Asked' /\ Heard' /\ Made'
<1> USE DEF TypeOK, Asked, Heard, Made, Goto, checkVars, viewVars, userVars
<1>1. ASSUME NEW h \in Hosts, NEW f \in Prints, Lookup(c, h, f)
      PROVE  Asked' /\ Heard' /\ Made'
  BY <1>1 DEF Lookup
<1>2. CASE Prompt(c)
  <2>1. \A n \in 1..Len(events') :
          events'[n] = c \/ (n \in 1..Len(events) /\ events'[n] = events[n])
    BY <1>2, PromptEvents
  <2>2. /\ pc[c] = "prompt" /\ pending' = pending \cup {c}
        /\ pc'[c] \notin {"idle", "prompt"} /\ \A d \in Checks \ {c} : pc'[d] = pc[d]
        /\ UNCHANGED <<slot, about, says, ipc, answer>>
    BY <1>2 DEF Prompt, Registered
  <2>3. Asked'
    BY <2>1, <2>2
  <2>4. Heard' /\ Made'
    BY <2>2
  <2>5. QED  BY <2>3, <2>4
<1>3. CASE Receive(c) \/ Save(c) \/ TimeOut(c)
  BY <1>3 DEF Receive, Save, TimeOut
<1>4. QED  BY <1>1, <1>2, <1>3 DEF CheckStep

LEMMA ClickHeard ==
  ASSUME TypeOK, Asked, Heard, Made, NEW k \in Clicks, ClickStep(k)
  PROVE  Asked' /\ Heard' /\ Made'
<1> USE DEF TypeOK, Asked, Heard, Made, checkVars
<1>1. ASSUME NEW v \in {"trust", "refuse"}, Click(k, v) PROVE Asked' /\ Heard' /\ Made'
  BY <1>1 DEF Click
<1>2. CASE Resolve(k)
  <2>1. \A d \in Checks :
          \/ about[k] # d /\ answer'[d] = answer[d] /\ (d \in pending' <=> d \in pending)
          \/ /\ about[k] = d /\ d \notin pending'
             /\ answer'[d] = IF d \in pending THEN says[k] ELSE answer[d]
    BY <1>2 DEF Resolve, Addressee
  <2>2. /\ ipc[k] = "sent" /\ ipc' = [ipc EXCEPT ![k] = "returned"]
        /\ UNCHANGED <<pc, slot, events, about>>
    BY <1>2 DEF Resolve
  <2>3. Asked' /\ Made'
    BY <2>1, <2>2
  <2>4. Heard'
    BY <2>1, <2>2
  <2>5. QED  BY <2>3, <2>4
<1>3. CASE Dismiss(k)
  BY <1>3 DEF Dismiss
<1>4. QED  BY <1>1, <1>2, <1>3 DEF ClickStep

LEMMA DeliverHeard ==
  ASSUME TypeOK, Asked, Heard, Made, Deliver
  PROVE  TypeOK' /\ Asked' /\ Heard' /\ Made'
<1>1. /\ events \in Seq(Checks) /\ events # <<>> /\ slot' = Head(events) /\ events' = Tail(events)
      /\ UNCHANGED <<pc, about, says, ipc, pending, answer>>
  BY DEF TypeOK, Deliver, Shown, userVars
<1>2. /\ Head(events) = events[1] /\ 1 \in 1..Len(events)
      /\ \A n \in 1..Len(events') : events'[n] = events[n + 1] /\ n + 1 \in 1..Len(events)
  BY <1>1
<1>3. TypeOK'
  BY <1>1 DEF TypeOK, Deliver, checkVars, userVars
<1>4. QED  BY <1>1, <1>2, <1>3 DEF Asked, Heard, Made

LEMMA CheckApproved ==
  ASSUME TypeOK, Asked, Clicked, OnlyApproved, NEW c \in Checks, CheckStep(c)
  PROVE  Clicked' /\ OnlyApproved'
<1> USE DEF TypeOK, Clicked, OnlyApproved, Goto, checkVars, viewVars, userVars
<1>1. ASSUME NEW h \in Hosts, NEW f \in Prints, Lookup(c, h, f)
      PROVE  Clicked' /\ OnlyApproved'
  <2>1. Clicked'
    BY <1>1 DEF Lookup, Asked
  <2>2. OnlyApproved'
    BY <1>1 DEF Lookup
  <2>3. QED  BY <2>1, <2>2
<1>2. CASE Prompt(c) \/ Receive(c) \/ TimeOut(c)
  BY <1>2 DEF Prompt, Receive, TimeOut
<1>3. CASE Save(c)
  BY <1>3 DEF Save
<1>4. QED  BY <1>1, <1>2, <1>3 DEF CheckStep

LEMMA ClickApproved ==
  ASSUME TypeOK, Heard, Made, Clicked, OnlyApproved, NEW k \in Clicks, ClickStep(k)
  PROVE  Clicked' /\ OnlyApproved'
<1> USE DEF TypeOK, Clicked, OnlyApproved, checkVars
<1>1. ASSUME NEW v \in {"trust", "refuse"}, Click(k, v) PROVE Clicked' /\ OnlyApproved'
  BY <1>1 DEF Click
<1>2. CASE Resolve(k)
  <2>1. /\ \A d \in Checks : answer'[d] = "trust" =>
             answer[d] = "trust" \/ (about[k] = d /\ says[k] = "trust")
        /\ \A d \in Checks : answer[d] # "none" => answer'[d] = answer[d]
    BY <1>2 DEF Resolve, Addressee, Heard
  <2>2. UNCHANGED <<known, pc, host, print, about, says, approved>>
    BY <1>2 DEF Resolve
  <2>3. QED  BY <2>1, <2>2
<1>3. CASE Dismiss(k)
  BY <1>3 DEF Dismiss
<1>4. QED  BY <1>1, <1>2, <1>3 DEF ClickStep

----------------------------------------------------------------------------
(* Which checks overlap.                                                   *)

LEMMA CheckUncrossed ==
  ASSUME TypeOK, Uncrossed, NEW c \in Checks, CheckStep(c)
  PROVE  Uncrossed'
<1> USE DEF TypeOK, Uncrossed, Verifying, Final, Goto, checkVars, viewVars
<1>1. ASSUME NEW h \in Hosts, NEW f \in Prints, Lookup(c, h, f) PROVE Uncrossed'
  <2>1. CASE pc' = [pc EXCEPT ![c] = "failed"]
    BY <1>1, <2>1 DEF Lookup
  <2>2. CASE pc' # [pc EXCEPT ![c] = "failed"]
    BY <1>1, <2>2 DEF Lookup, OldPrint
  <2>3. QED  BY <2>1, <2>2
<1>2. CASE Prompt(c) \/ Receive(c) \/ TimeOut(c)
  BY <1>2 DEF Prompt, Receive, TimeOut
<1>3. CASE Save(c)
  BY <1>3 DEF Save
<1>4. QED  BY <1>1, <1>2, <1>3 DEF CheckStep

----------------------------------------------------------------------------

LEMMA StepInv == IInv /\ [Next]_vars => IInv'
<1> SUFFICES ASSUME IInv, [Next]_vars PROVE IInv'
  OBVIOUS
<1> USE DEF IInv
<1>1. ASSUME NEW c \in Checks, CheckStep(c) PROVE IInv'
  BY <1>1, CheckTypes, CheckHeard, CheckApproved, CheckUncrossed
<1>2. ASSUME NEW k \in Clicks, ClickStep(k) PROVE IInv'
  <2>1. Uncrossed'
    BY <1>2 DEF ClickStep, Click, Resolve, Dismiss, Uncrossed, checkVars
  <2>2. QED  BY <1>2, <2>1, ClickTypes, ClickHeard, ClickApproved
<1>3. CASE Deliver
  <2>1. Looked' /\ Clicked' /\ OnlyApproved' /\ Uncrossed'
    BY <1>3 DEF Deliver, Looked, Clicked, OnlyApproved, Uncrossed, checkVars, userVars
  <2>2. QED  BY <1>3, <2>1, DeliverHeard
<1>4. CASE UNCHANGED vars
  BY <1>4 DEF vars, checkVars, viewVars, userVars, TypeOK, Looked, Asked, Clicked, Heard, Made,
     Uncrossed, OnlyApproved
<1>5. QED
  BY <1>1, <1>2, <1>3, <1>4 DEF Next, CheckStep, ClickStep

LEMMA Invariance == Spec => []IInv
BY InitInv, StepInv, PTL DEF Spec

\* The verifier, the registry and the dialog keep their types in every behaviour.
THEOREM PromptTypes == Spec => []TypeOK
<1>1. IInv => TypeOK
  BY DEF IInv
<1>2. QED  BY <1>1, Invariance, PTL

\* No handshake goes on, and no fingerprint is stored, that the user was not
\* shown and did not trust, however prompts, answers and timeouts interleave.
THEOREM TrustIsGiven == Spec => []OnlyApproved
<1>1. IInv => OnlyApproved
  BY DEF IInv
<1>2. QED  BY <1>1, Invariance, PTL

\* While checks of one host do not overlap, save() replaces the fingerprint that
\* the prompt showed as the old one.
THEOREM NoUnseenChange == Spec => ChangeIsWarned
<1>1. IInv /\ [Next]_vars
        => [\A c \in Checks :
              pc[c] = "saving" /\ known' # known /\ pc'[c] = "trusted" /\ ~crossed
                => known[host[c]] = old[c]]_vars
  BY DEF IInv, Uncrossed, Verifying
<1>2. QED  BY <1>1, Invariance, PTL DEF Spec, ChangeIsWarned

\* While a check waits for the user, no answer to its prompt is lost: not to a
\* prompt that took its place on screen, nor to a command that came first.
THEOREM AnswersArrive == Spec => []NoAnswerLost
<1>1. IInv => NoAnswerLost
  BY DEF IInv, TypeOK, Heard, NoAnswerLost
<1>2. QED  BY <1>1, Invariance, PTL

=============================================================================
