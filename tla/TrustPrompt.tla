----------------------------- MODULE TrustPrompt -----------------------------
(***************************************************************************)
(* Trust on first use: KnownHostsVerifier (ssh/known_hosts.rs), the table  *)
(* of trusted fingerprints, the registry of prompts waiting for the user,  *)
(* and the one dialog of the front end (stores/connectionStore.ts).        *)
(* AgentCertVerifier (agent/handshake.rs) is the same code over a table,   *)
(* a registry and a dialog of its own; it differs in that nothing bounds   *)
(* the handshake around it.  `kind` says which of the two a behaviour is.  *)
(***************************************************************************)
EXTENDS Naturals, Sequences

CONSTANTS
  Checks,   \* handshakes, each verifying one fingerprint
  Hosts,    \* keys of the table: (host, port), or a connection id
  Prints,   \* fingerprints
  NoPrint,  \* no row in the table
  NoCheck,  \* no dialog
  Clicks    \* BOUND: presses of a button of the dialog

ASSUME TrustAssumption == Hosts # {} /\ NoPrint \notin Prints /\ NoCheck \notin Checks

VARIABLES
  kind,      \* "ssh" or "agent"
  known,     \* the trusted fingerprint of each host
  pc,        \* how far each check has come
  host,      \* the host a check is for
  print,     \* the fingerprint it was presented
  old,       \* what lookup() found, shown in the prompt
  pending,   \* TrustPromptRegistry: the checks whose sender it holds
  answer,    \* what each oneshot channel carries
  late,      \* checks whose connect() gave up while they went on
  events,    \* prompt events on their way to the front end
  slot,      \* pendingHostKeyPrompt, the check the dialog is about
  about,     \* the check whose prompt a click was about
  says,      \* "trust" or "refuse", the button that was clicked
  ipc,       \* how far the confirm command of a click has come
  approved,  \* history: what the user was shown and trusted, or trusted before
  crossed    \* history: have two checks of one host overlapped?

checkVars == <<host, print, old>>
userVars  == <<about, says, ipc>>
viewVars  == <<events, slot, userVars>>
vars == <<kind, known, pc, checkVars, pending, answer, late, viewVars, approved, crossed>>

Final == {"trusted", "refused", "failed"}
Verifying == {"prompt", "waiting", "saving"}

Init ==
  /\ kind \in {"ssh", "agent"}
  /\ known \in [Hosts -> Prints \cup {NoPrint}]
  /\ pc       = [c \in Checks |-> "idle"]
  /\ host     = [c \in Checks |-> CHOOSE h \in Hosts : TRUE]
  /\ print    = [c \in Checks |-> NoPrint]
  /\ old      = [c \in Checks |-> NoPrint]
  /\ pending  = {}
  /\ answer   = [c \in Checks |-> "none"]
  /\ late     = {}
  /\ events   = <<>>
  /\ slot     = NoCheck
  /\ about    = [k \in Clicks |-> NoCheck]
  /\ says     = [k \in Clicks |-> "refuse"]
  /\ ipc      = [k \in Clicks |-> "none"]
  /\ approved = {<<h, known[h]>> : h \in {g \in Hosts : known[g] # NoPrint}}
  /\ crossed  = FALSE

Goto(c, l) == pc' = [pc EXCEPT ![c] = l]

----------------------------------------------------------------------------
(* verify() and prompt().                                                  *)

\* Seeded bug: a mismatch is treated like an unknown host.
NothingKnown(h) == NoPrint

OldPrint(h) == known[h]

Lookup(c, h, f) ==
  /\ pc[c] = "idle"
  /\ host'  = [host EXCEPT ![c] = h]
  /\ print' = [print EXCEPT ![c] = f]
  /\ \/ /\ old' = [old EXCEPT ![c] = OldPrint(h)]
        /\ Goto(c, IF known[h] = f THEN "trusted" ELSE "prompt")
     \/ Goto(c, "failed") /\ UNCHANGED old
  /\ crossed' = (crossed \/ \E d \in Checks : pc[d] \in Verifying /\ host[d] = h)
  /\ UNCHANGED <<kind, known, pending, answer, late, viewVars, approved>>

\* Seeded bug: the registry has room for one sender.
OneSender(c) == {c}

Registered(c) == pending \cup {c}

\* register(), then emit(), whose failure leaves the registration behind.
Prompt(c) ==
  /\ pc[c] = "prompt"
  /\ pending' = Registered(c)
  /\ \/ Goto(c, "waiting") /\ events' = Append(events, c)
     \/ Goto(c, "failed") /\ UNCHANGED events
  /\ UNCHANGED <<kind, known, checkVars, answer, late, slot, userVars, approved, crossed>>

Receive(c) ==
  /\ pc[c] = "waiting" /\ answer[c] # "none"
  /\ Goto(c, IF answer[c] = "trust" THEN "saving" ELSE "refused")
  /\ UNCHANGED <<kind, known, checkVars, pending, answer, late, viewVars, approved, crossed>>

Save(c) ==
  /\ pc[c] = "saving"
  /\ \/ known' = [known EXCEPT ![host[c]] = print[c]] /\ Goto(c, "trusted")
     \/ Goto(c, "failed") /\ UNCHANGED known
  /\ UNCHANGED <<kind, checkVars, pending, answer, late, viewVars, approved, crossed>>

\* CONNECT_TIMEOUT of the SSH pool.  The check runs in the task russh spawned
\* (external), which ends with the connect() that gave up, or goes on.
TimeOut(c) ==
  /\ kind = "ssh" /\ pc[c] \in Verifying /\ c \notin late
  /\ \/ late' = late \cup {c} /\ UNCHANGED pc
     \/ Goto(c, "failed") /\ UNCHANGED late
  /\ UNCHANGED <<kind, known, checkVars, pending, answer, viewVars, approved, crossed>>

----------------------------------------------------------------------------
(* The front end: one slot, overwritten by each event and cleared whenever  *)
(* a confirm command has returned.                                         *)

\* Seeded bug: the request id is missing in what the front end reads.
NoRequestId(c) == 0

Shown(c) == c

Deliver ==
  /\ events # <<>>
  /\ slot' = Shown(Head(events))
  /\ events' = Tail(events)
  /\ UNCHANGED <<kind, known, pc, checkVars, pending, answer, late, userVars, approved,
                 crossed>>

\* The begin of resolveHostKeyPrompt().  The buttons stay enabled during its
\* await: the same prompt may be answered again, and differently.
Click(k, v) ==
  /\ slot # NoCheck /\ ipc[k] = "none"
  /\ about' = [about EXCEPT ![k] = slot]
  /\ says' = [says EXCEPT ![k] = v]
  /\ ipc' = [ipc EXCEPT ![k] = "sent"]
  /\ approved' = IF v = "trust" THEN approved \cup {<<host[slot], print[slot]>>} ELSE approved
  /\ UNCHANGED <<kind, known, pc, checkVars, pending, answer, late, events, slot, crossed>>

\* Seeded bug: the answer goes to whoever waits.
EveryWaiter(k) == pending

\* Seeded bug: the answer goes to the prompt on screen when it arrives.
OnScreen(k) == pending \cap {slot}

Addressee(k) == pending \cap {about[k]}

\* ssh_confirm_host_key: TrustPromptRegistry::resolve(), which ignores an id that
\* is not registered any more.
Resolve(k) ==
  /\ ipc[k] = "sent"
  /\ pending' = pending \ Addressee(k)
  /\ answer' = [d \in Checks |-> IF d \in Addressee(k) THEN says[k] ELSE answer[d]]
  /\ ipc' = [ipc EXCEPT ![k] = "returned"]
  /\ UNCHANGED <<kind, known, pc, checkVars, late, events, slot, about, says, approved,
                 crossed>>

\* The rest of resolveHostKeyPrompt() after its await: whatever prompt the slot
\* holds by now is gone.
Dismiss(k) ==
  /\ ipc[k] = "returned"
  /\ slot' = NoCheck
  /\ ipc' = [ipc EXCEPT ![k] = "done"]
  /\ UNCHANGED <<kind, known, pc, checkVars, pending, answer, late, events, about, says,
                 approved, crossed>>

----------------------------------------------------------------------------

Next ==
  \/ \E c \in Checks : \/ \E h \in Hosts, f \in Prints : Lookup(c, h, f)
                       \/ Prompt(c) \/ Receive(c) \/ Save(c) \/ TimeOut(c)
  \/ \E k \in Clicks : \/ \E v \in {"trust", "refuse"} : Click(k, v)
                       \/ Resolve(k) \/ Dismiss(k)
  \/ Deliver

Spec == Init /\ [][Next]_vars

\* Tasks, events and commands make progress; nothing is assumed of the user.
Fairness ==
  /\ \A c \in Checks : WF_vars(Prompt(c)) /\ WF_vars(Receive(c)) /\ WF_vars(Save(c))
  /\ \A k \in Clicks : WF_vars(Resolve(k)) /\ WF_vars(Dismiss(k))
  /\ WF_vars(Deliver)

FairSpec == Spec /\ Fairness

----------------------------------------------------------------------------
(* Properties.                                                             *)

\* Type invariant of the verifier, the registry and the dialog.
TypeOK ==
  /\ kind \in {"ssh", "agent"}
  /\ known \in [Hosts -> Prints \cup {NoPrint}]
  /\ pc \in [Checks -> {"idle"} \cup Verifying \cup Final]
  /\ host \in [Checks -> Hosts]
  /\ print \in [Checks -> Prints \cup {NoPrint}]
  /\ old \in [Checks -> Prints \cup {NoPrint}]
  /\ pending \in SUBSET Checks
  /\ answer \in [Checks -> {"none", "trust", "refuse"}]
  /\ late \in SUBSET Checks
  /\ events \in Seq(Checks)
  /\ slot \in Checks \cup {NoCheck}
  /\ about \in [Clicks -> Checks \cup {NoCheck}]
  /\ says \in [Clicks -> {"trust", "refuse"}]
  /\ ipc \in [Clicks -> {"none", "sent", "returned", "done"}]
  /\ approved \in SUBSET (Hosts \X Prints)
  /\ crossed \in BOOLEAN

\* A handshake goes on, and a fingerprint is stored, only if the user was shown
\* this fingerprint of this host and trusted it, whatever prompts overwrite
\* each other on the way, however late an answer comes, and however often and how
\* differently one prompt is answered.
OnlyApproved ==
  /\ \A h \in Hosts : known[h] # NoPrint => <<h, known[h]>> \in approved
  /\ \A c \in Checks : pc[c] = "trusted" => <<host[c], print[c]>> \in approved

\* A trusted fingerprint is replaced only by a check whose prompt showed it as
\* the old one (the "changed" dialog), unless two checks of the host overlapped.
ChangeIsWarned ==
  [][\A c \in Checks :
       pc[c] = "saving" /\ known' # known /\ pc'[c] = "trusted" /\ ~crossed
         => known[host[c]] = old[c]]_vars

\* What the comment on KnownHostsVerifier promises without that exemption, which
\* lookup() and save(), being no transaction, do not keep: no fingerprint is
\* replaced by another one without the warning that it has changed.
ChangeIsAlwaysWarned ==
  [][\A c \in Checks :
       pc[c] = "saving" /\ pc'[c] = "trusted" /\ known[host[c]] \in Prints /\ known' # known
         => old[c] # NoPrint]_vars

\* What the dialog of a changed fingerprint says of itself: only an explicit
\* choice closes it.
ClosedByChoice ==
  [][\A c \in Checks :
       slot = c /\ old[c] # NoPrint /\ slot' # c => \E k \in Clicks : about[k] = c]_vars

\* No answer is lost, whatever is on the screen when it is sent or arrives: a
\* check that still waits although its prompt was answered has the answer in its
\* channel, or has its sender registered and an answer under way to it.
NoAnswerLost ==
  \A c \in Checks : pc[c] = "waiting" /\ (\E k \in Clicks : about[k] = c)
    => \/ answer[c] # "none"
       \/ c \in pending /\ \E k \in Clicks : about[k] = c /\ ipc[k] = "sent"

\* A prompt that is answered ends its check, even when another prompt has taken
\* its place on the screen meanwhile.
AnswerEndsCheck ==
  \A c \in Checks : (\E k \in Clicks : about[k] = c) ~> pc[c] \in Final

=============================================================================
