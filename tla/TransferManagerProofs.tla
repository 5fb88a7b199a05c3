------------------------ MODULE TransferManagerProofs ------------------------
(***************************************************************************)
(* Two invariants of R1 Manager's transfers, for any batch, any number of  *)
(* host keys, faults, taps and torn state updates.                         *)
(*                                                                         *)
(* PinInv: a command runs only on a player whose host key the user         *)
(* accepted.  A pin reaches a call along three ways: from the screen, from *)
(* the block that read it, and from a torn state update, which may bring   *)
(* back an old one; all the pins on these ways were accepted.  The rest of *)
(* it is what the types of the threads' variables need.                    *)
(*                                                                         *)
(* QueueInv: what the screen says of an upload, how often it is published, *)
(* which tickets stay on the card and what was asked before a file is      *)
(* replaced.  An upload is pending until the step in which the player      *)
(* publishes or skips it, and a screen that calls it finished was made     *)
(* after that step; so is every copy of it that is stored late.            *)
(***************************************************************************)
EXTENDS TransferManager, FiniteSetTheorems, TLAPS

Landing == Positions \ {"store"}

\* A screen state whose pin is one of A, or none.
ScreenOK(u, A) == u \in Screen /\ u.pin \in A \cup {None}

\* What a thread t takes along, wherever it goes.
Carries(t, l, A) ==
  /\ l \in Local
  /\ l.pin \in A \cup {None}
  /\ t = "batch" => l.item \in Uploads \cup {None}

\* Where a thread is inside a withTrustedProfile.
Inside == Calls \cup {"trusted", "cancel", "ask", "request", "await"}

\* What a thread t has set by then; main closes a dialog with an answer.
Ready(t, l, where) ==
  /\ where \in Inside => l.block \in Blocks
  /\ t = "main" /\ where = "dismiss" => l.answer \in {"yes", "no"}

LocalOK(t, l, A) ==
  /\ Carries(t, l, A)
  /\ IF l.at = "store" THEN /\ ScreenOK(l.draft, A)
                           /\ l.next \in Landing
                           /\ Ready(t, l, l.next)
                      ELSE Ready(t, l, l.at)

LocalsOK(f, A) ==
  /\ f \in [Threads -> Local]
  /\ \A t \in Threads : LocalOK(t, f[t], A)

RestOK ==
  /\ todo \subseteq Uploads
  /\ policy \in Policies \cup {None}
  /\ conflictDecision \in (Policies \ {"fail"}) \cup {"open", "cancel", None}
  /\ "key" \in DOMAIN device /\ device.key \in Keys

PinInv ==
  /\ ScreenOK(ui, approved)
  /\ LocalsOK(th, approved)
  /\ RestOK

-------------------------------------------------------------------------------
\* A pin accepted once stays accepted.
LEMMA AcceptedStays ==
  ASSUME NEW A, NEW B, A \subseteq B, NEW f, LocalsOK(f, A)
  PROVE  LocalsOK(f, B)
  BY DEF LocalsOK, LocalOK, Carries, Ready, ScreenOK

\* Marking an item leaves the pin alone.
LEMMA MarkKeeps ==
  ASSUME NEW A, ScreenOK(ui, A), NEW i, NEW state \in States
  PROVE  ScreenOK(Mark(i, state), A)
  BY DEF ScreenOK, Screen, Mark

LEMMA FreshCarries ==
  ASSUME NEW A, NEW t \in Threads, NEW where \in Landing
  PROVE  Carries(t, Fresh(where), A) /\ Fresh(where).at = where
  BY DEF Carries, Fresh, Local, Landing

\* A thread that moves on without touching the screen.
LEMMA GoKeeps ==
  ASSUME NEW A, ScreenOK(ui, A), LocalsOK(th, A),
         NEW t \in Threads, NEW local, NEW where \in Landing,
         Carries(t, local, A),
         Ready(t, local, where),
         Go(t, local, where)
  PROVE  ScreenOK(ui', A) /\ LocalsOK(th', A)
<1> DEFINE new == [local EXCEPT !.at = where]
<1>1. /\ new \in Local
      /\ new.at = where /\ new.pin = local.pin
      /\ new.item = local.item /\ new.answer = local.answer /\ new.block = local.block
  BY DEF Carries, Local, Landing
<1>2. LocalOK(t, new, A)
  BY <1>1 DEF LocalOK, Carries, Ready, Landing
<1>3. th' = [th EXCEPT ![t] = new] /\ ui' = ui
  BY DEF Go, screen
<1> HIDE DEF new
<1>4. LocalsOK(th', A)
  BY <1>1, <1>2, <1>3 DEF LocalsOK
<1> QED
  BY <1>3, <1>4

\* A state update, at once or torn.
LEMMA PublishKeeps ==
  ASSUME NEW A, ScreenOK(ui, A), LocalsOK(th, A),
         NEW t \in Threads, NEW local, NEW new, NEW next \in Landing,
         Carries(t, local, A), ScreenOK(new, A),
         Ready(t, local, next),
         Publish(t, local, new, next)
  PROVE  ScreenOK(ui', A) /\ LocalsOK(th', A)
<1>1. CASE ui' = new /\ th' = [th EXCEPT ![t] = [local EXCEPT !.at = next]]
  <2> DEFINE moved == [local EXCEPT !.at = next]
  <2>1. /\ moved \in Local
        /\ moved.at = next /\ moved.pin = local.pin
        /\ moved.item = local.item /\ moved.answer = local.answer /\ moved.block = local.block
    BY DEF Carries, Local, Landing
  <2>2. LocalOK(t, moved, A)
    BY <2>1 DEF LocalOK, Carries, Ready, Landing
  <2> HIDE DEF moved
  <2>3. LocalsOK(th', A)
    BY <1>1, <2>1, <2>2 DEF LocalsOK, moved
  <2> QED
    BY <1>1, <2>3
<1>2. CASE /\ ui' = ui
           /\ th' = [th EXCEPT ![t] = [local EXCEPT !.at = "store", !.draft = new, !.next = next]]
  <2> DEFINE moved == [local EXCEPT !.at = "store", !.draft = new, !.next = next]
  <2>1. /\ moved \in Local
        /\ moved.at = "store" /\ moved.draft = new /\ moved.next = next
        /\ moved.pin = local.pin /\ moved.item = local.item
        /\ moved.answer = local.answer /\ moved.block = local.block
    <3>1. local \in Local /\ "store" \in Positions /\ next \in Positions /\ new \in Screen
      BY DEF Carries, Landing, Positions, ScreenOK
    <3>2. moved \in Local
      BY <3>1 DEF Local
    <3>3. /\ moved.at = "store" /\ moved.draft = new /\ moved.next = next
          /\ moved.pin = local.pin /\ moved.item = local.item
        /\ moved.answer = local.answer /\ moved.block = local.block
      BY <3>1 DEF Local
    <3> QED
      BY <3>2, <3>3
  <2>2. LocalOK(t, moved, A)
    BY <2>1 DEF LocalOK, Carries, Ready, Landing
  <2> HIDE DEF moved
  <2>3. LocalsOK(th', A)
    BY <1>2, <2>1, <2>2 DEF LocalsOK, moved
  <2> QED
    BY <1>2, <2>3
<1> QED
  BY <1>1, <1>2 DEF Publish

\* activeTransferId?.let { updateTransfer(...) }.
LEMMA MarkActiveKeeps ==
  ASSUME NEW A, ScreenOK(ui, A), LocalsOK(th, A),
         NEW t \in Threads, NEW local, NEW state \in States,
         NEW next \in Landing,
         Carries(t, local, A), Ready(t, local, next),
         MarkActive(t, local, state, next)
  PROVE  ScreenOK(ui', A) /\ LocalsOK(th', A)
<1>1. ScreenOK(Mark(activeTransferId, state), A)
  BY MarkKeeps
<1>2. CASE Go(t, local, next)
  BY <1>2, GoKeeps
<1>3. CASE Publish(t, local, Mark(activeTransferId, state), next)
  BY <1>1, <1>3, PublishKeeps
<1> QED
  BY <1>2, <1>3 DEF MarkActive

LEMMA LocalsCarry ==
  ASSUME NEW A, LocalsOK(th, A), NEW t \in Threads
  PROVE  /\ th[t] \in Local /\ Carries(t, th[t], A)
         /\ th' = th => LocalsOK(th', A)
  BY DEF LocalsOK, LocalOK

\* A local variable of no interest here changes.
LEMMA CarriesOn ==
  ASSUME NEW A, LocalsOK(th, A), NEW t \in Threads
  PROVE  /\ \A k \in Keys \cup {None} : Carries(t, [th[t] EXCEPT !.wanted = k], A)
         /\ \A a \in {"yes", "no", None} : Carries(t, [th[t] EXCEPT !.answer = a], A)
         /\ \A a \in {"yes", "no", None}, k \in Keys \cup {None} :
              Carries(t, [th[t] EXCEPT !.answer = a, !.wanted = k], A)
         /\ \A b \in BOOLEAN : Carries(t, [th[t] EXCEPT !.ticket = b], A)
         /\ \A b \in BOOLEAN, k \in Keys \cup {None} :
              Carries(t, [th[t] EXCEPT !.ticket = b, !.wanted = k], A)
         /\ \A b \in Blocks : Carries(t, [th[t] EXCEPT !.block = b], A)
         /\ \A b \in Blocks, w \in Policies \cup {None} :
              Carries(t, [th[t] EXCEPT !.wire = w, !.block = b], A)
<1>1. th[t] \in Local /\ Carries(t, th[t], A)
  BY LocalsCarry
<1>2. \A k \in Keys \cup {None} : Carries(t, [th[t] EXCEPT !.wanted = k], A)
  BY <1>1 DEF Carries, Local
<1>3. \A a \in {"yes", "no", None} : Carries(t, [th[t] EXCEPT !.answer = a], A)
  BY <1>1 DEF Carries, Local
<1>4. \A a \in {"yes", "no", None}, k \in Keys \cup {None} :
        Carries(t, [th[t] EXCEPT !.answer = a, !.wanted = k], A)
  BY <1>1 DEF Carries, Local
<1>5. \A b \in BOOLEAN : Carries(t, [th[t] EXCEPT !.ticket = b], A)
  BY <1>1 DEF Carries, Local
<1>6. \A b \in BOOLEAN, k \in Keys \cup {None} :
        Carries(t, [th[t] EXCEPT !.ticket = b, !.wanted = k], A)
  BY <1>1 DEF Carries, Local
<1>7. \A b \in Blocks : Carries(t, [th[t] EXCEPT !.block = b], A)
  BY <1>1 DEF Carries, Local
<1>8. \A b \in Blocks, w \in Policies \cup {None} :
        Carries(t, [th[t] EXCEPT !.wire = w, !.block = b], A)
  BY <1>1 DEF Carries, Local
<1> QED
  BY <1>2, <1>3, <1>4, <1>5, <1>6, <1>7, <1>8

LEMMA Where ==
  /\ Calls \subseteq Landing
  /\ {"new", "idle", "next", "begin", "trusted", "cancel", "ask", "request", "await",
      "conflict", "dialog", "choose", "completed", "skipped", "failed", "cancelled",
      "report", "finally", "over", "launch", "launchFetch", "dismiss", "yes", "no",
      "notice"} \subseteq Landing
  /\ \A s \in {"new", "idle", "next", "begin", "trusted", "cancel", "ask", "request", "await",
      "conflict", "dialog", "choose", "completed", "skipped", "failed", "cancelled",
      "report", "finally", "over", "launch", "launchFetch", "yes", "no",
      "notice", "exists", "prepare", "commit", "refresh", "fetch", "list"} : s # "dismiss"
  BY DEF Landing, Positions, Calls

\* What the remote calls leave behind when they fail.
LEMMA RaisedKeeps ==
  ASSUME NEW A, ScreenOK(ui, A), LocalsOK(th, A), NEW t \in Threads,
         NEW key \in Keys \cup {None}, th[t].at \in Calls, Raised(t, key)
  PROVE  ScreenOK(ui', A) /\ LocalsOK(th', A)
<1> DEFINE where == IF th[t].at = "commit" THEN "cancel" ELSE Handler(key)
           local == [th[t] EXCEPT !.wanted = key]
<1>1. where \in Landing /\ where # "dismiss"
  BY Where DEF Handler
<1>2. Carries(t, local, A) /\ Ready(t, local, where)
  <2>1. th[t] \in Local /\ th[t].block \in Blocks
    BY Where DEF LocalsOK, LocalOK, Ready, Inside, Calls
  <2>2. local.block = th[t].block
    BY <2>1 DEF Local
  <2> QED
    BY <1>1, <2>1, <2>2, CarriesOn DEF Ready
<1>3. Go(t, local, where)
  BY DEF Raised
<1> HIDE DEF where, local
<1> QED
  BY <1>1, <1>2, <1>3, GoKeeps

LEMMA PinInvInit == Init => PinInv
<1> SUFFICES ASSUME Init PROVE PinInv
  OBVIOUS
<1>1. saved \in Keys \cup {None} /\ approved = {saved} \ {None} /\ ui.pin = saved
  BY KeyAssumption DEF Init, Keys
<1>2. ScreenOK(ui, approved)
  BY <1>1 DEF ScreenOK, Screen, Init, Keys
<1>3. ASSUME NEW t \in Threads
      PROVE  /\ th[t] = Fresh(IF t = "main" THEN "idle" ELSE "new")
             /\ Fresh(IF t = "main" THEN "idle" ELSE "new").at \in {"idle", "new"}
             /\ Carries(t, Fresh(IF t = "main" THEN "idle" ELSE "new"), approved)
  BY FreshCarries, Where DEF Init, Fresh
<1>4. ASSUME NEW t \in Threads PROVE LocalOK(t, th[t], approved) /\ th[t] \in Local
  BY <1>3 DEF LocalOK, Carries, Ready, Inside, Calls
<1>5. LocalsOK(th, approved)
  BY <1>4 DEF LocalsOK, Init
<1>6. RestOK
  BY KeyAssumption DEF RestOK, Init, Keys
<1> QED
  BY <1>2, <1>5, <1>6 DEF PinInv

-------------------------------------------------------------------------------
(***************************************************************************)
(* The steps a coroutine takes.                                            *)
(***************************************************************************)
\* The state update that was torn: its copy is stored.
LEMMA StoreStep ==
  ASSUME PinInv, NEW t \in Threads, Store(t)
  PROVE  PinInv'
<1> DEFINE moved == [th[t] EXCEPT !.at = th[t].next, !.draft = None, !.next = None]
<1>1. LocalOK(t, th[t], approved) /\ th[t] \in Local
  BY DEF PinInv, LocalsOK
<1>2. ScreenOK(th[t].draft, approved) /\ th[t].next \in Landing
  BY <1>1 DEF LocalOK, Store, At
<1>3. /\ moved \in Local
      /\ moved.at = th[t].next /\ moved.pin = th[t].pin
      /\ moved.item = th[t].item /\ moved.answer = th[t].answer /\ moved.block = th[t].block
  BY <1>1, <1>2 DEF Local, Landing
<1>4. LocalOK(t, moved, approved)
  BY <1>1, <1>2, <1>3 DEF LocalOK, Carries, Ready, Landing, Store, At
<1>5. ui' = th[t].draft /\ th' = [th EXCEPT ![t] = moved] /\ approved' = approved
  BY DEF Store, history
<1> HIDE DEF moved
<1>6. LocalsOK(th', approved)
  BY <1>3, <1>4, <1>5 DEF PinInv, LocalsOK
<1> QED
  BY <1>2, <1>5, <1>6 DEF PinInv, RestOK, Store, queue, decisions, history

\* A step that concerns threads and screen only.
LEMMA LocalStep ==
  ASSUME PinInv, ScreenOK(ui', approved), LocalsOK(th', approved),
         UNCHANGED <<queue, conflictDecision, device, approved>>
  PROVE  PinInv'
  BY DEF PinInv, RestOK, queue

\* The steps that go on from where the thread is.
LEMMA CoroutineSteps ==
  ASSUME PinInv, NEW t \in Threads,
         \/ TrustedBlock(t) \/ HostKeyRefused(t) \/ CallFails(t) \/ Progress(t)
         \/ CommitRefused(t) \/ AwaitTrust(t) \/ RequestTrust(t) \/ TrustDecided(t)
         \/ Finished(t) \/ Failed(t) \/ Cancelled(t) \/ Report(t) \/ Finally(t)
  PROVE  PinInv'
<1> DEFINE self == th[t]
           Kept == ScreenOK(ui', approved) /\ LocalsOK(th', approved)
<1>1. ScreenOK(ui, approved) /\ LocalsOK(th, approved)
  BY DEF PinInv
<1>2. self \in Local /\ Carries(t, self, approved) /\ LocalOK(t, self, approved)
  BY <1>1, LocalsCarry DEF LocalsOK
<1>3. device.key \in Keys
  BY DEF PinInv, RestOK
<1>4. CASE TrustedBlock(t)
  <2> DEFINE where == IF self.block = "upload" THEN "prepare" ELSE self.block
             local == [self EXCEPT !.pin = ui.pin]
  <2>1. Go(t, local, where)
    BY <1>4 DEF TrustedBlock
  <2>2. Carries(t, local, approved) /\ local.block = self.block
    BY <1>1, <1>2 DEF Carries, Local, ScreenOK, Screen
  <2>3. self.block \in Blocks
    BY <1>2, <1>4 DEF TrustedBlock, At, LocalOK, Ready, Inside
  <2>4. where \in Landing /\ where # "dismiss"
    BY <2>3, Where DEF Blocks, Calls
  <2>5. Ready(t, local, where)
    BY <2>2, <2>3, <2>4 DEF Ready
  <2> HIDE DEF where, local
  <2>6. Kept
    BY <2>1, <2>2, <2>4, <2>5, <1>1, GoKeeps
  <2> QED
    BY <1>4, <2>6, LocalStep DEF TrustedBlock, decisions, history
<1>5. CASE HostKeyRefused(t)
  BY <1>1, <1>3, <1>5, RaisedKeeps, LocalStep DEF HostKeyRefused, decisions, history
<1>6. CASE CallFails(t)
  BY <1>1, <1>6, RaisedKeeps, LocalStep DEF CallFails, decisions, history
<1>7. CASE CommitRefused(t)
  BY <1>1, <1>7, RaisedKeeps, LocalStep DEF CommitRefused, Connected, At, Calls, decisions, history
<1>8. CASE Progress(t)
  <2>1. /\ self.at \in {"commit", "fetch"}
        /\ Publish(t, self, Mark(self.item, "running"), self.at)
    BY <1>8 DEF Progress
  <2>2. self.at \in Landing /\ Ready(t, self, self.at)
    BY <1>2, <2>1, Where DEF Calls, LocalOK
  <2>3. ScreenOK(Mark(self.item, "running"), approved)
    BY <1>1, MarkKeeps DEF States
  <2>4. Kept
    BY <1>1, <1>2, <2>1, <2>2, <2>3, PublishKeeps
  <2> QED
    BY <1>8, <2>4, LocalStep DEF Progress, decisions, history
<1>9. CASE AwaitTrust(t)
  <2> DEFINE local == [self EXCEPT !.answer = None]
  <2>1. /\ MarkActive(t, local, "trust?", "request")
        /\ self.at = "ask"
    BY <1>9 DEF AwaitTrust, At
  <2>2. Carries(t, local, approved)
    BY <1>1, CarriesOn
  <2>3. local.block = self.block /\ self.block \in Blocks
    BY <1>2, <2>1 DEF LocalOK, Ready, Inside, Local
  <2>4. Ready(t, local, "request") /\ "request" \in Landing
    BY <2>3, Where DEF Ready
  <2> HIDE DEF local
  <2>5. Kept
    BY <1>1, <2>1, <2>2, <2>4, MarkActiveKeeps DEF States
  <2> QED
    BY <1>9, <2>5, LocalStep DEF AwaitTrust, history
<1>10. CASE RequestTrust(t)
  <2>1. /\ Publish(t, self, [ui EXCEPT !.trust = self.wanted], "await")
        /\ self.at = "request"
    BY <1>10 DEF RequestTrust, At
  <2>2. Ready(t, self, "await") /\ "await" \in Landing
    BY <1>2, <2>1, Where DEF LocalOK, Ready, Inside
  <2>3. ScreenOK([ui EXCEPT !.trust = self.wanted], approved)
    BY <1>1, <1>2 DEF ScreenOK, Screen, Local
  <2>4. Kept
    BY <1>1, <1>2, <2>1, <2>2, <2>3, PublishKeeps
  <2> QED
    BY <1>10, <2>4, LocalStep DEF RequestTrust, decisions, history
<1>11. CASE TrustDecided(t)
  <2> DEFINE local == [self EXCEPT !.answer = None, !.wanted = None]
  <2>1. Carries(t, local, approved)
    BY <1>1, CarriesOn
  <2>2. local.block = self.block /\ self.block \in Blocks
    BY <1>2, <1>11 DEF TrustDecided, At, LocalOK, Ready, Inside, Local
  <2>3. ASSUME MarkActive(t, local, "running", "trusted") PROVE Kept
    <3>1. Ready(t, local, "trusted") /\ "trusted" \in Landing
      BY <2>2, Where DEF Ready
    <3> HIDE DEF local
    <3> QED
      BY <1>1, <2>1, <2>3, <3>1, MarkActiveKeeps DEF States
  <2>4. ASSUME Go(t, local, Rejected(t)) PROVE Kept
    <3>1. Rejected(t) \in {"finally", "report", "cancelled"}
      BY DEF Rejected
    <3>2. Ready(t, local, Rejected(t)) /\ Rejected(t) \in Landing
      BY <3>1, Where DEF Ready, Inside, Calls
    <3> HIDE DEF local
    <3> QED
      BY <1>1, <2>1, <2>4, <3>2, GoKeeps
  <2>5. MarkActive(t, local, "running", "trusted") \/ Go(t, local, Rejected(t))
    BY <1>11 DEF TrustDecided
  <2>6. Kept
    BY <2>3, <2>4, <2>5
  <2> QED
    BY <1>11, <2>6, LocalStep DEF TrustDecided, history
<1>12. CASE Finished(t)
  <2> DEFINE local == [self EXCEPT !.block = "refresh"]
             shown == Mark(self.item, self.at)
  <2>1. ScreenOK(shown, approved)
    BY <1>1, <1>12, MarkKeeps DEF Finished, States
  <2>2. ASSUME t = "batch" PROVE Kept
    <3>1. Publish(t, local, shown, "trusted")
      BY <1>12, <2>2 DEF Finished
    <3>2. Carries(t, local, approved)
      BY <1>1, CarriesOn DEF Blocks
    <3>3. Ready(t, local, "trusted") /\ "trusted" \in Landing
      BY <1>2, Where DEF Ready, Local, Blocks
    <3> HIDE DEF local, shown
    <3> QED
      BY <1>1, <2>1, <3>1, <3>2, <3>3, PublishKeeps
  <2>3. ASSUME t # "batch" PROVE Kept
    <3>1. Publish(t, self, shown, "finally")
      BY <1>12, <2>3 DEF Finished
    <3>2. Ready(t, self, "finally") /\ "finally" \in Landing
      BY Where DEF Ready, Inside, Calls
    <3> HIDE DEF shown
    <3> QED
      BY <1>1, <1>2, <2>1, <3>1, <3>2, PublishKeeps
  <2> QED
    BY <1>12, <2>2, <2>3, LocalStep DEF Finished, decisions, history
<1>13. ASSUME Failed(t) \/ Cancelled(t)
       PROVE  PinInv'
  <2>1. \A state \in {"failed", "cancelled"} : ScreenOK(Mark(self.item, state), approved)
    BY <1>1, MarkKeeps DEF States
  <2>2. \A where \in {"finally", "report"} : Ready(t, self, where) /\ where \in Landing
    BY Where DEF Ready, Inside, Calls
  <2>3. \E where \in {"finally", "report"} :
          \/ Go(t, self, where)
          \/ \E state \in {"failed", "cancelled"} : Publish(t, self, Mark(self.item, state), where)
    BY <1>13 DEF Failed, Cancelled
  <2>4. Kept
    BY <1>1, <1>2, <2>1, <2>2, <2>3, GoKeeps, PublishKeeps
  <2> QED
    BY <1>13, <2>4, LocalStep DEF Failed, Cancelled, decisions, history
<1>14. CASE Report(t)
  <2>1. \A where \in {"finally", "over"} : Ready(t, self, where) /\ Ready(t, Fresh("over"), where)
                                           /\ where \in Landing
    BY Where DEF Ready, Inside, Calls
  <2>2. Carries(t, Fresh("over"), approved)
    BY FreshCarries, Where
  <2>3. Publish(t, Fresh("over"), ui, "over") \/ Publish(t, self, ui, "finally")
    BY <1>14 DEF Report
  <2>4. Kept
    BY <1>1, <1>2, <2>1, <2>2, <2>3, PublishKeeps
  <2> QED
    BY <1>14, <2>4, LocalStep DEF Report, decisions, history
<1>15. CASE Finally(t)
  <2>1. PICK where \in {"next", "over"} : th' = [th EXCEPT ![t] = Fresh(where)]
    BY <1>15 DEF Finally
  <2>2. Carries(t, Fresh(where), approved) /\ Fresh(where).at = where
    BY FreshCarries, Where
  <2>3. LocalOK(t, Fresh(where), approved) /\ Fresh(where) \in Local
    BY <2>2 DEF LocalOK, Carries, Ready, Inside, Calls
  <2>4. Kept
    BY <1>1, <2>1, <2>3, <1>15 DEF LocalsOK, Finally, screen
  <2> QED
    BY <1>15, <2>4, LocalStep DEF Finally, decisions, history
<1> QED
  BY <1>4, <1>5, <1>6, <1>7, <1>8, <1>9, <1>10, <1>11, <1>12, <1>13, <1>14, <1>15

\* The steps with which the player acts.
LEMMA PlayerSteps ==
  ASSUME PinInv, NEW t \in Threads,
         PrepareUpload(t) \/ CommitUpload(t) \/ CancelUpload(t)
  PROVE  PinInv'
<1> DEFINE self == th[t]
           Kept == ScreenOK(ui', approved) /\ LocalsOK(th', approved)
<1>1. ScreenOK(ui, approved) /\ LocalsOK(th, approved)
  BY DEF PinInv
<1>2. self \in Local /\ Carries(t, self, approved) /\ LocalOK(t, self, approved)
  BY <1>1, LocalsCarry DEF LocalsOK
<1> DEFINE KeyKept == "key" \in DOMAIN device' /\ device'.key = device.key
<1>3. "key" \in DOMAIN device
  BY DEF PinInv, RestOK
<1>4. ASSUME Kept, KeyKept, UNCHANGED <<queue, conflictDecision, approved>>
      PROVE  PinInv'
  BY <1>4 DEF PinInv, RestOK, queue
<1>5. CASE PrepareUpload(t)
  <2> DEFINE local == [self EXCEPT !.ticket = TRUE]
  <2>1. self.at = "prepare" /\ self.block \in Blocks
    BY <1>2, <1>5 DEF PrepareUpload, Connected, At, LocalOK, Ready, Inside, Calls
  <2>2. ASSUME Go(t, local, "commit") PROVE Kept
    <3>1. Carries(t, local, approved)
      BY <1>1, CarriesOn
    <3>2. Ready(t, local, "commit") /\ "commit" \in Landing
      BY <1>2, <2>1, Where DEF Ready, Local, Calls
    <3> HIDE DEF local
    <3> QED
      BY <1>1, <2>2, <3>1, <3>2, GoKeeps
  <2>3. ASSUME Raised(t, None) PROVE Kept
    BY <1>1, <2>1, <2>3, RaisedKeeps DEF Calls
  <2>4. KeyKept
    BY <1>3, <1>5 DEF PrepareUpload
  <2> QED
    BY <1>4, <1>5, <2>2, <2>3, <2>4 DEF PrepareUpload, decisions, history
<1>6. CASE CommitUpload(t)
  <2> DEFINE done == [self EXCEPT !.ticket = FALSE, !.wanted = None]
             outcome == Outcome(self.item, self.wire)
  <2>1. self.at = "commit" /\ self.block \in Blocks
    BY <1>2, <1>6 DEF CommitUpload, Connected, At, LocalOK, Ready, Inside, Calls
  <2>2. outcome \in {"completed", "skipped"}
    BY <1>6 DEF CommitUpload, Outcome
  <2>3. Carries(t, done, approved) /\ done.block = self.block
    BY <1>1, <1>2, CarriesOn DEF Local
  <2>4. \A where \in {"completed", "skipped", "cancel"} :
          Ready(t, done, where) /\ where \in Landing
    BY <2>1, <2>3, Where DEF Ready
  <2>5. Go(t, done, outcome) \/ Go(t, done, "cancel")
    BY <1>6 DEF CommitUpload
  <2>6. Kept
    <3> HIDE DEF done, outcome
    <3> QED
      BY <1>1, <2>2, <2>3, <2>4, <2>5, GoKeeps
  <2>7. KeyKept
    BY <1>3, <1>6 DEF CommitUpload
  <2> QED
    BY <1>4, <1>6, <2>6, <2>7 DEF CommitUpload, decisions, history
<1>7. CASE CancelUpload(t)
  <2> DEFINE local == [self EXCEPT !.ticket = FALSE]
             where == Handler(self.wanted)
  <2>1. self.at = "cancel" /\ self.block \in Blocks
    BY <1>2, <1>7 DEF CancelUpload, At, LocalOK, Ready, Inside
  <2>2. Carries(t, local, approved) /\ local.block = self.block
    BY <1>1, <1>2, CarriesOn DEF Local
  <2>3. Ready(t, local, where) /\ where \in Landing
    BY <2>1, <2>2, Where DEF Ready, Handler
  <2>4. Go(t, local, where)
    BY <1>7 DEF CancelUpload
  <2>5. Kept
    <3> HIDE DEF local, where
    <3> QED
      BY <1>1, <2>2, <2>3, <2>4, GoKeeps
  <2>6. KeyKept
    BY <1>3, <1>7 DEF CancelUpload
  <2> QED
    BY <1>4, <1>7, <2>5, <2>6 DEF CancelUpload, decisions, history
<1> QED
  BY <1>5, <1>6, <1>7

-------------------------------------------------------------------------------
(***************************************************************************)
(* The batch, the download and the refresh.                                *)
(***************************************************************************)
LEMMA BatchSteps ==
  ASSUME PinInv, Batch
  PROVE  PinInv'
<1> DEFINE self == th["batch"]
           Kept == ScreenOK(ui', approved) /\ LocalsOK(th', approved)
<1>1. ScreenOK(ui, approved) /\ LocalsOK(th, approved) /\ "batch" \in Threads
  BY DEF PinInv, Threads
<1>2. self \in Local /\ Carries("batch", self, approved) /\ LocalOK("batch", self, approved)
  BY <1>1, LocalsCarry DEF LocalsOK
<1>3. self.item \in Uploads \cup {None}
  BY <1>2 DEF Carries
<1>4. CASE NextUpload
  <2>1. PICK i \in todo :
          /\ todo' = todo \ {i}
          /\ Publish("batch",
                     [self EXCEPT !.item = i, !.wire = policy,
                                  !.block = IF policy = "fail" THEN "exists" ELSE "upload"],
                     Mark(i, "running"), "trusted")
    BY <1>4 DEF NextUpload
  <2> DEFINE block == IF policy = "fail" THEN "exists" ELSE "upload"
             local == [self EXCEPT !.item = i, !.wire = policy, !.block = block]
  <2>2. i \in Uploads /\ policy \in Policies \cup {None}
    BY DEF PinInv, RestOK
  <2>3. /\ local \in Local /\ local.pin = self.pin /\ local.item = i
        /\ local.block \in Blocks
    <3>1. block \in Blocks /\ i \in Transfers
      BY <2>2 DEF Blocks, Transfers
    <3> HIDE DEF block
    <3> QED
      BY <1>2, <2>2, <3>1 DEF Local
  <2>4. Carries("batch", local, approved) /\ Ready("batch", local, "trusted")
    BY <1>2, <2>2, <2>3 DEF Carries, Ready
  <2>5. ScreenOK(Mark(i, "running"), approved)
    BY <1>1, MarkKeeps DEF States
  <2>6. Kept
    <3> HIDE DEF local
    <3> QED
      BY <1>1, <2>1, <2>4, <2>5, Where, PublishKeeps DEF local
  <2> QED
    BY <1>4, <2>1, <2>6 DEF NextUpload, PinInv, RestOK, decisions, history
<1>5. CASE BatchOver
  BY <1>1, <1>2, <1>5, Where, GoKeeps, LocalStep
     DEF BatchOver, Ready, Inside, Calls, decisions, history
<1>6. CASE DestinationExists
  <2> DEFINE local == [self EXCEPT !.block = "upload"]
  <2>1. Go("batch", self, "conflict") \/ Go("batch", local, "trusted")
    BY <1>6 DEF DestinationExists
  <2>2. Carries("batch", local, approved) /\ Ready("batch", local, "trusted")
    BY <1>1, <1>2, CarriesOn DEF Blocks, Ready, Local
  <2>3. Ready("batch", self, "conflict")
    BY DEF Ready, Inside, Calls
  <2>4. Kept
    <3> HIDE DEF local
    <3> QED
      BY <1>1, <1>2, <2>1, <2>2, <2>3, Where, GoKeeps
  <2> QED
    BY <1>6, <2>4, LocalStep DEF DestinationExists, decisions, history
<1>7. CASE AwaitConflict
  <2>1. ScreenOK(Mark(self.item, "decision?"), approved)
    BY <1>1, MarkKeeps DEF States
  <2>2. Ready("batch", self, "dialog")
    BY DEF Ready, Inside, Calls
  <2>3. Kept
    BY <1>1, <1>2, <1>7, <2>1, <2>2, Where, PublishKeeps DEF AwaitConflict
  <2> QED
    BY <1>7, <2>3 DEF AwaitConflict, PinInv, RestOK, queue, history
<1>8. CASE RequestConflict
  <2>1. ScreenOK([ui EXCEPT !.conflict = self.item], approved)
    BY <1>1, <1>3 DEF ScreenOK, Screen
  <2>2. Ready("batch", self, "choose")
    BY DEF Ready, Inside, Calls
  <2>3. Kept
    BY <1>1, <1>2, <1>8, <2>1, <2>2, Where, PublishKeeps DEF RequestConflict
  <2> QED
    BY <1>8, <2>3, LocalStep DEF RequestConflict, decisions, history
<1>9. CASE ConflictDecided
  <2> DEFINE local == [self EXCEPT !.wire = conflictDecision, !.block = "upload"]
             closed == [ui EXCEPT !.conflict = None]
  <2>1. ScreenOK(closed, approved)
    BY <1>1 DEF ScreenOK, Screen
  <2>2. ASSUME Publish("batch", self, closed, "cancelled") PROVE Kept
    <3>1. Ready("batch", self, "cancelled")
      BY DEF Ready, Inside, Calls
    <3> HIDE DEF closed
    <3> QED
      BY <1>1, <1>2, <2>1, <2>2, <3>1, Where, PublishKeeps
  <2>3. ASSUME conflictDecision # "cancel", Publish("batch", local, closed, "trusted")
        PROVE  Kept
    <3>1. conflictDecision \in Policies
      BY <1>9, <2>3 DEF ConflictDecided, PinInv, RestOK
    <3>2. Carries("batch", local, approved) /\ Ready("batch", local, "trusted")
      BY <1>1, <1>2, <3>1, CarriesOn DEF Blocks, Ready, Local
    <3> HIDE DEF closed, local
    <3> QED
      BY <1>1, <2>1, <2>3, <3>2, Where, PublishKeeps
  <2>4. Kept
    BY <1>9, <2>2, <2>3 DEF ConflictDecided
  <2> QED
    BY <1>9, <2>4 DEF ConflictDecided, PinInv, RestOK, queue, history
<1>10. CASE RefreshAfterTransfer
  <2>1. Ready("batch", self, "finally")
    BY DEF Ready, Inside, Calls
  <2>2. Kept
    BY <1>1, <1>2, <1>10, <2>1, Where, PublishKeeps DEF RefreshAfterTransfer
  <2> QED
    BY <1>10, <2>2, LocalStep DEF RefreshAfterTransfer, decisions, history
<1> QED
  BY <1>4, <1>5, <1>6, <1>7, <1>8, <1>9, <1>10 DEF Batch

LEMMA CompanionSteps ==
  ASSUME PinInv, BeginDownload \/ Fetched \/ Listed
  PROVE  PinInv'
<1> DEFINE Kept == ScreenOK(ui', approved) /\ LocalsOK(th', approved)
<1>1. ScreenOK(ui, approved) /\ LocalsOK(th, approved) /\ {"fetch", "view"} \subseteq Threads
  BY DEF PinInv, Threads
<1>2. \A t \in {"fetch", "view"} : th[t] \in Local /\ Carries(t, th[t], approved)
  BY <1>1, LocalsCarry
<1>3. CASE BeginDownload
  <2> DEFINE local == [th["fetch"] EXCEPT !.item = Download, !.block = "fetch"]
  <2>1. Publish("fetch", local, Mark(Download, "running"), "trusted")
    BY <1>3 DEF BeginDownload
  <2>2. /\ local \in Local /\ local.pin = th["fetch"].pin /\ local.block = "fetch"
    BY <1>2 DEF Local, Transfers, Blocks
  <2>3. Carries("fetch", local, approved) /\ Ready("fetch", local, "trusted")
    BY <1>2, <2>2 DEF Carries, Ready, Blocks
  <2>4. ScreenOK(Mark(Download, "running"), approved)
    BY <1>1, MarkKeeps DEF States
  <2> HIDE DEF local
  <2>5. Kept
    BY <1>1, <2>1, <2>3, <2>4, Where, PublishKeeps
  <2> QED
    BY <1>3, <2>5, LocalStep DEF BeginDownload, decisions, history
<1>4. CASE Fetched
  <2>1. Ready("fetch", th["fetch"], "completed")
    BY DEF Ready, Inside, Calls
  <2>2. Kept
    BY <1>1, <1>2, <1>4, <2>1, Where, GoKeeps DEF Fetched
  <2> QED
    BY <1>4, <2>2, LocalStep DEF Fetched, decisions, history
<1>5. CASE Listed
  <2>1. Carries("view", Fresh("over"), approved) /\ Ready("view", Fresh("over"), "over")
    BY <1>1, Where, FreshCarries DEF Ready, Inside, Calls
  <2>2. Kept
    BY <1>1, <1>5, <2>1, Where, PublishKeeps DEF Listed
  <2> QED
    BY <1>5, <2>2, LocalStep DEF Listed, decisions, history
<1> QED
  BY <1>3, <1>4, <1>5

-------------------------------------------------------------------------------
(***************************************************************************)
(* The taps and the player.                                                *)
(***************************************************************************)
\* The taps that start something.
LEMMA StartSteps ==
  ASSUME PinInv,
         \/ \E p \in Policies : ConfirmUploads(p)
         \/ ProcessUploadBatch \/ DownloadSingleTo \/ LaunchDownload \/ Refresh
  PROVE  PinInv'
<1> DEFINE self == th["main"]
           Kept == ScreenOK(ui', approved) /\ LocalsOK(th', approved)
<1>1. ScreenOK(ui, approved) /\ LocalsOK(th, approved) /\ Threads = {"main", "batch", "fetch", "view"}
  BY DEF PinInv, Threads
<1>2. self \in Local /\ Carries("main", self, approved)
  BY <1>1, LocalsCarry
<1>3. \A t \in Threads, where \in {"idle", "next", "begin"} :
        LocalOK(t, Fresh(where), approved) /\ Fresh(where) \in Local
  <2> SUFFICES ASSUME NEW t \in Threads, NEW where \in {"idle", "next", "begin"}
               PROVE  LocalOK(t, Fresh(where), approved) /\ Fresh(where) \in Local
    OBVIOUS
  <2>1. Carries(t, Fresh(where), approved) /\ Fresh(where).at = where
    BY Where, FreshCarries
  <2> QED
    BY <2>1 DEF LocalOK, Carries, Ready, Inside, Calls
<1>4. ASSUME NEW p \in Policies, ConfirmUploads(p)
      PROVE  PinInv'
  <2> DEFINE new == [ui EXCEPT !.transfers =
                       [i \in Transfers |-> IF i \in Uploads THEN "queued" ELSE @[i]]]
  <2>1. Publish("main", self, new, "launch")
    BY <1>4 DEF ConfirmUploads
  <2>2. ScreenOK(new, approved)
    <3> DEFINE listed == [i \in Transfers |-> IF i \in Uploads THEN "queued" ELSE ui.transfers[i]]
    <3>1. listed \in [Transfers -> States \cup {None}]
      BY <1>1 DEF ScreenOK, Screen, States
    <3>2. new = [ui EXCEPT !.transfers = listed]
      BY <1>1 DEF ScreenOK, Screen
    <3> HIDE DEF new, listed
    <3> QED
      BY <1>1, <3>1, <3>2 DEF ScreenOK, Screen
  <2>3. Ready("main", self, "launch")
    BY DEF Ready, Inside, Calls
  <2>4. Kept
    <3> HIDE DEF new
    <3> QED
      BY <1>1, <1>2, <2>1, <2>2, <2>3, Where, PublishKeeps
  <2> QED
    BY <1>4, <2>4 DEF ConfirmUploads, PinInv, RestOK, decisions, history
<1>5. CASE ProcessUploadBatch
  <2>1. Kept
    BY <1>1, <1>3, <1>5 DEF ProcessUploadBatch, LocalsOK, screen
  <2> QED
    BY <1>5, <2>1 DEF ProcessUploadBatch, PinInv, RestOK, decisions, history
<1>6. CASE DownloadSingleTo
  <2>1. ScreenOK([ui EXCEPT !.transfers[Download] = "queued"], approved)
    BY <1>1 DEF ScreenOK, Screen, States
  <2>2. Ready("main", self, "launchFetch")
    BY DEF Ready, Inside, Calls
  <2>3. Kept
    BY <1>1, <1>2, <1>6, <2>1, <2>2, Where, PublishKeeps DEF DownloadSingleTo
  <2> QED
    BY <1>6, <2>3, LocalStep DEF DownloadSingleTo, decisions, history
<1>7. CASE LaunchDownload
  <2>1. Kept
    BY <1>1, <1>3, <1>7 DEF LaunchDownload, LocalsOK, screen
  <2> QED
    BY <1>7, <2>1, LocalStep DEF LaunchDownload, decisions, history
<1>8. CASE Refresh
  <2> DEFINE local == [Fresh("idle") EXCEPT !.block = "list"]
  <2>1. /\ local \in Local /\ local.pin = None /\ local.block = "list"
    BY <1>3, <1>1 DEF Fresh, Local, Blocks
  <2>2. Carries("view", local, approved) /\ Ready("view", local, "trusted")
    BY <2>1 DEF Carries, Ready, Blocks
  <2>3. Publish("view", local, ui, "trusted")
    BY <1>8 DEF Refresh
  <2> HIDE DEF local
  <2>4. Kept
    BY <1>1, <2>2, <2>3, Where, PublishKeeps
  <2> QED
    BY <1>8, <2>4, LocalStep DEF Refresh, decisions, history
<1> QED
  BY <1>4, <1>5, <1>6, <1>7, <1>8

\* The taps about a dialog or a pin.  AcceptTrust is where a pin comes from.
LEMMA AnswerSteps ==
  ASSUME PinInv,
         \/ AcceptTrust \/ RejectTrust \/ DismissTrust \/ CompleteTrust
         \/ \E a \in {"skip", "replace", "keep", "cancel"} : ResolveConflict(a)
         \/ ResetPinnedHostKey \/ NoticeReset
  PROVE  PinInv'
<1> DEFINE self == th["main"]
           Kept == ScreenOK(ui', approved) /\ LocalsOK(th', approved)
<1>1. ScreenOK(ui, approved) /\ LocalsOK(th, approved) /\ "main" \in Threads
  BY DEF PinInv, Threads
<1>2. self \in Local /\ Carries("main", self, approved) /\ LocalOK("main", self, approved)
  BY <1>1, LocalsCarry DEF LocalsOK
<1>3. CASE AcceptTrust
  <2> DEFINE local == [self EXCEPT !.answer = "yes"]
             new == [ui EXCEPT !.pin = ui.trust]
  <2>1. approved' = approved \cup {ui.trust}
    BY <1>3 DEF AcceptTrust
  <2>2. ScreenOK(ui, approved') /\ LocalsOK(th, approved')
    BY <1>1, <2>1, AcceptedStays DEF ScreenOK
  <2>3. ScreenOK(new, approved')
    BY <1>1, <2>1 DEF ScreenOK, Screen
  <2>4. Carries("main", local, approved') /\ local.answer = "yes"
    BY <1>2, <2>2, <1>1, CarriesOn DEF Local
  <2>5. Ready("main", local, "dismiss")
    BY <2>4 DEF Ready, Inside, Calls
  <2>6. Publish("main", local, new, "dismiss")
    BY <1>3 DEF AcceptTrust
  <2>7. ScreenOK(ui', approved') /\ LocalsOK(th', approved')
    <3> HIDE DEF local, new
    <3> QED
      BY <1>1, <2>2, <2>3, <2>4, <2>5, <2>6, Where, PublishKeeps
  <2> QED
    BY <1>3, <2>7 DEF AcceptTrust, PinInv, RestOK, queue, decisions
<1>4. CASE RejectTrust
  <2> DEFINE local == [self EXCEPT !.answer = "no"]
  <2>1. Carries("main", local, approved) /\ local.answer = "no"
    BY <1>1, <1>2, CarriesOn DEF Local
  <2>2. Ready("main", local, "dismiss") /\ Go("main", local, "dismiss")
    BY <1>4, <2>1 DEF Ready, Inside, Calls, RejectTrust
  <2> HIDE DEF local
  <2>3. Kept
    BY <1>1, <2>1, <2>2, Where, GoKeeps
  <2> QED
    BY <1>4, <2>3, LocalStep DEF RejectTrust, decisions, history
<1>5. CASE DismissTrust
  <2>1. self.answer \in {"yes", "no"}
    BY <1>2, <1>5 DEF DismissTrust, At, LocalOK, Ready
  <2>2. Ready("main", self, self.answer) /\ self.answer \in Landing
    BY <2>1, Where DEF Ready, Inside, Calls
  <2>3. ScreenOK([ui EXCEPT !.trust = None], approved)
    BY <1>1 DEF ScreenOK, Screen
  <2>4. Kept
    BY <1>1, <1>2, <1>5, <2>2, <2>3, PublishKeeps DEF DismissTrust
  <2> QED
    BY <1>5, <2>4, LocalStep DEF DismissTrust, decisions, history
<1>6. CASE CompleteTrust
  <2>1. Carries("main", Fresh("idle"), approved) /\ Fresh("idle").at = "idle"
    BY <1>1, Where, FreshCarries
  <2>2. LocalOK("main", Fresh("idle"), approved) /\ Fresh("idle") \in Local
    BY <2>1 DEF LocalOK, Carries, Ready, Inside, Calls
  <2>3. ASSUME NEW t \in Threads, t # "main", NEW answer \in {"yes", "no"}
        PROVE  LET woken == [th[t] EXCEPT !.answer = answer]
               IN  LocalOK(t, woken, approved) /\ woken \in Local
    <3> DEFINE woken == [th[t] EXCEPT !.answer = answer]
    <3>1. th[t] \in Local /\ LocalOK(t, th[t], approved)
      BY <1>1 DEF LocalsOK
    <3>2. /\ woken \in Local
          /\ woken.at = th[t].at /\ woken.next = th[t].next /\ woken.draft = th[t].draft
          /\ woken.pin = th[t].pin /\ woken.item = th[t].item /\ woken.block = th[t].block
      BY <3>1 DEF Local
    <3>3. LocalOK(t, woken, approved)
      <4> HIDE DEF woken
      <4> QED
        BY <2>3, <3>1, <3>2 DEF LocalOK, Carries, Ready
    <3> QED
      BY <3>2, <3>3
  <2>4. self.at \in {"yes", "no"} /\ ui' = ui
    BY <1>6 DEF CompleteTrust, screen
  <2>5. th' = [t \in Threads |->
                 IF t = "main" THEN Fresh("idle")
                 ELSE IF t = trustDecision /\ th[t].answer = None
                      THEN [th[t] EXCEPT !.answer = self.at]
                      ELSE th[t]]
    BY <1>6 DEF CompleteTrust
  <2>6. \A t \in Threads : LocalOK(t, th'[t], approved) /\ th'[t] \in Local
    <3> SUFFICES ASSUME NEW t \in Threads
                 PROVE  LocalOK(t, th'[t], approved) /\ th'[t] \in Local
      OBVIOUS
    <3>1. CASE t = "main"
      BY <2>2, <2>5, <3>1
    <3>2. CASE t # "main" /\ t = trustDecision /\ th[t].answer = None
      BY <2>3, <2>4, <2>5, <3>2
    <3>3. CASE t # "main" /\ ~(t = trustDecision /\ th[t].answer = None)
      BY <1>1, <2>5, <3>3 DEF LocalsOK
    <3> QED
      BY <3>1, <3>2, <3>3
  <2>7. Kept
    BY <1>1, <2>4, <2>5, <2>6 DEF LocalsOK
  <2> QED
    BY <1>6, <2>7, LocalStep DEF CompleteTrust, decisions, history
<1>7. ASSUME NEW a \in {"skip", "replace", "keep", "cancel"}, ResolveConflict(a)
      PROVE  PinInv'
  BY <1>7 DEF ResolveConflict, PinInv, RestOK, Policies, screen, queue
<1>8. CASE ResetPinnedHostKey
  <2>1. ScreenOK([ui EXCEPT !.pin = None], approved) /\ Ready("main", self, "notice")
    BY <1>1 DEF ScreenOK, Screen, Ready, Inside, Calls
  <2>2. Kept
    BY <1>1, <1>2, <1>8, <2>1, Where, PublishKeeps DEF ResetPinnedHostKey
  <2> QED
    BY <1>8, <2>2, LocalStep DEF ResetPinnedHostKey, decisions, history
<1>9. CASE NoticeReset
  <2>1. Ready("main", self, "idle")
    BY DEF Ready, Inside, Calls
  <2>2. Kept
    BY <1>1, <1>2, <1>9, <2>1, Where, PublishKeeps DEF NoticeReset
  <2> QED
    BY <1>9, <2>2, LocalStep DEF NoticeReset, decisions, history
<1> QED
  BY <1>3, <1>4, <1>5, <1>6, <1>7, <1>8, <1>9

LEMMA PlayerChanges ==
  ASSUME PinInv, Player
  PROVE  PinInv'
<1>1. CASE HostKeyChanges
  BY <1>1, KeyAssumption
     DEF HostKeyChanges, PinInv, RestOK, Keys, screen, queue, decisions, history
<1>2. CASE \E p \in Paths : ForeignWrite(p)
  BY <1>2 DEF ForeignWrite, PinInv, RestOK, screen, queue, decisions, history
<1> QED
  BY <1>1, <1>2 DEF Player

-------------------------------------------------------------------------------
\* Every pin anywhere in the view model was accepted by the user.
THEOREM PinInvariant == Spec => []PinInv
<1>1. Init => PinInv
  BY PinInvInit
<1>2. PinInv /\ [Next]_vars => PinInv'
  <2> SUFFICES ASSUME PinInv, [Next]_vars PROVE PinInv'
    OBVIOUS
  <2>1. CASE Taps
    BY <2>1, StartSteps, AnswerSteps DEF Taps
  <2>2. CASE Batch
    BY <2>2, BatchSteps
  <2>3. CASE BeginDownload \/ Fetched \/ Listed
    BY <2>3, CompanionSteps
  <2>4. ASSUME NEW t \in Threads, Coroutine(t) PROVE PinInv'
    BY <2>4, StoreStep, CoroutineSteps, PlayerSteps DEF Coroutine
  <2>5. CASE Player
    BY <2>5, PlayerChanges
  <2>6. CASE UNCHANGED vars
    BY <2>6 DEF vars, PinInv, RestOK
  <2> QED
    BY <2>1, <2>2, <2>3, <2>4, <2>5, <2>6 DEF Next
<1> QED
  BY <1>1, <1>2, PTL DEF Spec

\* R1 Manager runs a command only on a player whose host key the user accepted,
\* whichever coroutine an answer reached and whatever old state was stored.
THEOREM OnlyApprovedPlayers == Spec => []ApprovedPlayerOnly
<1>1. PinInv => ApprovedPlayerOnly
  <2> SUFFICES ASSUME PinInv, NEW t \in Threads, Accepts(t)
               PROVE  device.key \in approved
    BY DEF ApprovedPlayerOnly
  <2>1. th[t].pin \in approved \cup {None}
    BY DEF PinInv, LocalsOK, LocalOK, Carries
  <2>2. th[t].pin = device.key /\ device.key \in Keys
    BY DEF Accepts, PinInv, RestOK
  <2> QED
    BY <2>1, <2>2, NoneAssumption
<1> QED
  BY <1>1, PinInvariant, PTL

-------------------------------------------------------------------------------
(***************************************************************************)
(* The queue: what has become of an upload, what the screen says of it,    *)
(* what stays on the card, and what was asked before a file is replaced.   *)
(*                                                                         *)
(* A torn state update does not move a thread: its position is where the   *)
(* update will have been made, and what it is about to store is one more   *)
(* screen that may come to be shown.                                       *)
(***************************************************************************)
Pos(l) == IF l.at = "store" THEN l.next ELSE l.at

batch == th["batch"]

\* The blocks each thread runs, and which of them it may be in where.
BlocksOf(t) == CASE t = "batch" -> {"exists", "upload", "refresh", None}
                 [] t = "fetch" -> {"fetch", None}
                 [] t = "view"  -> {"list", None}
                 [] OTHER       -> {None}

BlockAt(where, block) ==
  /\ where \in {"exists", "refresh", "fetch", "list"} => block = where
  /\ where \in {"prepare", "commit", "cancel"} => block = "upload"
  /\ where \in {"conflict", "dialog", "choose"} => block = "exists"
  /\ where \in {"trusted", "ask", "request", "await"} => block # None
  /\ where = "cancelled" => block # "refresh"

Asked == policy = "replace" \/ chosen

\* A thread's local variables, at a position.
ThreadAt(t, l, where) ==
  /\ l.block \in BlocksOf(t)
  /\ BlockAt(where, l.block)
  /\ l.item \in (IF t = "batch" THEN Uploads ELSE {Download}) \cup {None}
  /\ l.ticket => t = "batch" /\ where \in {"commit", "cancel"}
  /\ where = "commit" => l.ticket
  /\ l.wire = "replace" => Asked

\* The batch may still publish its item.
UnderwayAt(l, where) ==
  \/ /\ where \in {"trusted", "exists", "prepare", "commit", "ask", "request", "await",
                   "conflict", "dialog", "choose"}
     /\ l.block # "refresh"
  \/ where = "cancel" /\ l.wanted # None

Pending(i) == \/ Pos(batch) = "new"
              \/ i \in todo
              \/ batch.item = i /\ UnderwayAt(batch, Pos(batch))

\* What has become of an upload.
UploadOK(i) ==
  /\ device.published[i] \in {0, 1}
  /\ Pending(i) => device.published[i] = 0
  /\ batch.item = i =>
       /\ i \notin todo
       /\ Pos(batch) \in {"skipped", "cancelled"} => device.published[i] = 0
       /\ Pos(batch) = "completed" => device.published[i] = 1

\* What a screen says of it.
Says(s, i, published, pending) ==
  /\ s.transfers[i] = "completed" => published = 1
  /\ s.transfers[i] \in {"skipped", "cancelled"} => published = 0 /\ ~pending

SaysOK(s) == \A i \in Uploads : Says(s, i, device.published[i], Pending(i))

DeviceOK == device \in [key : Keys, disk : [Paths -> Uploads \cup {"foreign", None}],
                       staged : Nat, published : [Uploads -> Nat]]

\* A leaked ticket was left by a broken connection, or by a key that is newer than
\* the one of the next ticket.
StagedOK ==
  /\ device.staged \in Nat /\ faults \in Nat
  /\ IF batch.ticket
     THEN /\ batch.pin \in Keys /\ batch.pin <= device.key
          /\ 1 <= device.staged /\ device.staged <= faults + batch.pin
     ELSE device.staged <= faults + device.key - 1

\* The batch is started once.
StartedOnce == /\ policy = None \/ Pos(th["main"]) = "launch" => Pos(batch) = "new"
               /\ Pos(th["main"]) = "launch" => policy # None

AskedOK == /\ conflictDecision = "replace" => chosen
           /\ replaced => Asked

ThreadsOK == \A t \in Threads : ThreadAt(t, th[t], Pos(th[t]))

\* No state update is made by a thread that has not started.
StoresOK == \A t \in Threads : th[t].at = "store" => th[t].next # "new"

UploadsOK == \A i \in Uploads : UploadOK(i)
ScreensOK == /\ SaysOK(ui)
             /\ \A t \in Threads : th[t].at = "store" => SaysOK(th[t].draft)

QueueInv == ThreadsOK /\ StoresOK /\ StartedOnce /\ UploadsOK /\ ScreensOK
            /\ DeviceOK /\ StagedOK /\ AskedOK

-------------------------------------------------------------------------------
(***************************************************************************)
(* How a thread moves on.                                                  *)
(***************************************************************************)
\* From here on a thread is at where with these local variables; the screen is
\* as it was, or new, or new is yet to be stored.
Moves(t, local, new, where) ==
  /\ \A u \in Threads \ {t} : th'[u] = th[u]
  /\ Pos(th'[t]) = where
  /\ /\ th'[t].block = local.block /\ th'[t].item = local.item
     /\ th'[t].pin = local.pin /\ th'[t].wire = local.wire
     /\ th'[t].ticket = local.ticket /\ th'[t].wanted = local.wanted
  /\ th'[t].at = "store" => th'[t].draft = new
  /\ ui' \in {ui, new}

LEMMA GoMoves ==
  ASSUME th \in [Threads -> Local], NEW t \in Threads, NEW local \in Local,
         NEW where \in Landing, Go(t, local, where)
  PROVE  Moves(t, local, ui, where)
<1> DEFINE l == [local EXCEPT !.at = where]
<1>1. /\ l.at = where /\ l.block = local.block /\ l.item = local.item /\ l.pin = local.pin
      /\ l.wire = local.wire /\ l.ticket = local.ticket /\ l.wanted = local.wanted
  BY DEF Local
<1>2. th' = [th EXCEPT ![t] = l] /\ ui' = ui
  BY DEF Go, screen
<1> HIDE DEF l
<1>3. th'[t] = l /\ \A u \in Threads \ {t} : th'[u] = th[u]
  BY <1>2
<1> QED
  BY <1>1, <1>2, <1>3 DEF Moves, Pos, Landing

LEMMA PublishMoves ==
  ASSUME th \in [Threads -> Local], NEW t \in Threads, NEW local \in Local,
         NEW new, NEW where \in Landing, Publish(t, local, new, where)
  PROVE  Moves(t, local, new, where)
<1>1. CASE ui' = new /\ th' = [th EXCEPT ![t] = [local EXCEPT !.at = where]]
  <2> DEFINE l == [local EXCEPT !.at = where]
  <2>1. /\ l.at = where /\ l.block = local.block /\ l.item = local.item /\ l.pin = local.pin
        /\ l.wire = local.wire /\ l.ticket = local.ticket /\ l.wanted = local.wanted
    BY DEF Local
  <2>2. th' = [th EXCEPT ![t] = l]
    BY <1>1
  <2> HIDE DEF l
  <2>3. th'[t] = l /\ \A u \in Threads \ {t} : th'[u] = th[u]
    BY <2>2
  <2> QED
    BY <1>1, <2>1, <2>3 DEF Moves, Pos, Landing
<1>2. CASE /\ ui' = ui
           /\ th' = [th EXCEPT ![t] = [local EXCEPT !.at = "store", !.draft = new, !.next = where]]
  <2> DEFINE l == [local EXCEPT !.at = "store", !.draft = new, !.next = where]
  <2>1. /\ l.at = "store" /\ l.draft = new /\ l.next = where
        /\ l.block = local.block /\ l.item = local.item /\ l.pin = local.pin
        /\ l.wire = local.wire /\ l.ticket = local.ticket /\ l.wanted = local.wanted
    BY DEF Local
  <2>2. th' = [th EXCEPT ![t] = l]
    BY <1>2
  <2> HIDE DEF l
  <2>3. th'[t] = l /\ \A u \in Threads \ {t} : th'[u] = th[u]
    BY <2>2
  <2> QED
    BY <1>2, <2>1, <2>3 DEF Moves, Pos
<1> QED
  BY <1>1, <1>2 DEF Publish

LEMMA StoreMoves ==
  ASSUME th \in [Threads -> Local], NEW t \in Threads, Store(t), th[t].next \in Landing
  PROVE  Moves(t, th[t], th[t].draft, Pos(th[t]))
<1> DEFINE l == [th[t] EXCEPT !.at = th[t].next, !.draft = None, !.next = None]
<1>1. th[t] \in Local
  OBVIOUS
<1>2. /\ l.at = th[t].next /\ l.block = th[t].block /\ l.item = th[t].item
      /\ l.pin = th[t].pin /\ l.wire = th[t].wire /\ l.ticket = th[t].ticket
      /\ l.wanted = th[t].wanted
  BY <1>1 DEF Local
<1>3. th' = [th EXCEPT ![t] = l] /\ ui' = th[t].draft /\ th[t].at = "store"
  BY DEF Store, At
<1> HIDE DEF l
<1>4. th'[t] = l /\ \A u \in Threads \ {t} : th'[u] = th[u]
  BY <1>3
<1> QED
  BY <1>2, <1>3, <1>4 DEF Moves, Pos, Landing

\* Where a state update is skipped, the screen stays.
LEMMA MarkActiveMoves ==
  ASSUME th \in [Threads -> Local], NEW t \in Threads, NEW local \in Local,
         NEW state, NEW where \in Landing, MarkActive(t, local, state, where)
  PROVE  \/ Moves(t, local, ui, where)
         \/ Moves(t, local, Mark(activeTransferId, state), where)
  BY GoMoves, PublishMoves DEF MarkActive

-------------------------------------------------------------------------------
(***************************************************************************)
(* What a move has to keep.                                                *)
(***************************************************************************)
\* A thread that is not the batch.
LEMMA OthersKeep ==
  ASSUME QueueInv, NEW t \in Threads \ {"batch"}, NEW local, NEW new, NEW where,
         Moves(t, local, new, where),
         ThreadAt(t, local, where), where # "new", SaysOK(new),
         StartedOnce', AskedOK', Asked => Asked',
         UNCHANGED <<todo, device>>, faults' \in Nat, faults <= faults'
  PROVE  QueueInv'
<1>1. batch' = batch /\ Pos(batch)' = Pos(batch)
  BY DEF Moves, batch, Threads, Pos
<1>2. ThreadsOK'
  <2> SUFFICES ASSUME NEW u \in Threads PROVE ThreadAt(u, th[u], Pos(th[u]))'
    BY DEF ThreadsOK
  <2>1. CASE u = t
    BY <2>1 DEF Moves, ThreadAt, Pos
  <2>2. CASE u # t
    <3>1. th'[u] = th[u]
      BY <2>2 DEF Moves
    <3>2. ThreadAt(u, th[u], Pos(th[u]))
      BY DEF QueueInv, ThreadsOK
    <3>3. Pos(th'[u]) = Pos(th[u])
      BY <3>1
    <3> QED
      BY <3>1, <3>2, <3>3 DEF ThreadAt
  <2> QED
    BY <2>1, <2>2
<1>4. \A i : Pending(i)' = Pending(i)
  BY <1>1 DEF Pending, UnderwayAt
<1>5. UploadsOK'
  BY <1>1, <1>4 DEF QueueInv, UploadsOK, UploadOK
<1>6. ScreensOK'
  BY <1>4 DEF QueueInv, ScreensOK, SaysOK, Says, Moves
<1>7. DeviceOK' /\ StagedOK'
  BY <1>1 DEF QueueInv, DeviceOK, StagedOK, Keys
<1>8. StoresOK'
  BY DEF QueueInv, StoresOK, Moves, Pos
<1> QED
  BY <1>2, <1>5, <1>6, <1>7, <1>8 DEF QueueInv

\* The batch.  No upload becomes pending by it that was not, and only the one in hand
\* is published, which was pending until then.
LEMMA BatchKeeps ==
  ASSUME QueueInv, NEW local, NEW new, NEW where,
         Moves("batch", local, new, where),
         where # "new", Pos(batch) # "new",
         ThreadAt("batch", local, where), SaysOK(new),
         \A i \in Uploads : local.item = i =>
           /\ i \notin todo'
           /\ UnderwayAt(local, where) => Pending(i) /\ device'.published[i] = 0
           /\ where \in {"skipped", "cancelled"} => device'.published[i] = 0
           /\ where = "completed" => device'.published[i] = 1,
         \A i \in Uploads : \/ device'.published[i] = device.published[i]
                            \/ device'.published[i] = 1 /\ local.item = i /\ Pending(i),
         todo' \subseteq todo, policy' = policy, chosen' = chosen,
         DeviceOK', StagedOK', AskedOK'
  PROVE  QueueInv'
<1>1. /\ Pos(batch)' = where /\ "batch" \in Threads
      /\ batch'.item = local.item /\ batch'.block = local.block /\ batch'.wanted = local.wanted
  BY DEF Moves, batch, Threads, Pos
<1>2. ThreadsOK'
  <2> SUFFICES ASSUME NEW u \in Threads PROVE ThreadAt(u, th[u], Pos(th[u]))'
    BY DEF ThreadsOK
  <2>1. CASE u = "batch"
    BY <2>1 DEF Moves, ThreadAt, Asked, Pos
  <2>2. CASE u # "batch"
    <3>1. th'[u] = th[u]
      BY <2>2 DEF Moves
    <3>2. ThreadAt(u, th[u], Pos(th[u]))
      BY DEF QueueInv, ThreadsOK
    <3>3. Pos(th'[u]) = Pos(th[u]) /\ Asked' = Asked
      BY <3>1 DEF Asked
    <3> QED
      BY <3>1, <3>2, <3>3 DEF ThreadAt
  <2> QED
    BY <2>1, <2>2
<1>3. StartedOnce'
  BY DEF QueueInv, StartedOnce, Moves, Pos, Threads
<1>4. \A i \in Uploads : Pending(i)' => Pending(i)
  BY <1>1 DEF Pending, UnderwayAt
<1>5. UploadsOK'
  <2> SUFFICES ASSUME NEW i \in Uploads PROVE UploadOK(i)'
    BY DEF UploadsOK
  <2>1. UploadOK(i) /\ batch'.item = local.item
    BY <1>1 DEF QueueInv, UploadsOK
  <2>2. Pending(i)' => device'.published[i] = 0
    <3>1. Pending(i)' => \/ i \in todo'
                         \/ local.item = i /\ UnderwayAt(local, where)
      BY <1>1 DEF Pending, UnderwayAt
    <3>2. i \in todo' => device.published[i] = 0 /\ local.item # i
      BY <2>1 DEF UploadOK, Pending
    <3> QED
      BY <3>1, <3>2
  <2> QED
    BY <1>1, <2>1, <2>2 DEF UploadOK
<1>6. ScreensOK'
  <2> DEFINE SaysThen(s) == \A i \in Uploads : Says(s, i, device'.published[i], Pending(i)')
  <2>1. ASSUME NEW s, SaysOK(s) PROVE SaysThen(s)
    <3> SUFFICES ASSUME NEW i \in Uploads
                 PROVE  Says(s, i, device'.published[i], Pending(i)')
      OBVIOUS
    <3>1. Says(s, i, device.published[i], Pending(i)) /\ UploadOK(i)
      BY <2>1 DEF SaysOK, QueueInv, UploadsOK
    <3> QED
      BY <1>4, <3>1 DEF Says, UploadOK
  <2>2. SaysOK(ui) /\ \A t \in Threads : th[t].at = "store" => SaysOK(th[t].draft)
    BY DEF QueueInv, ScreensOK
  <2> HIDE DEF SaysThen
  <2>3. SaysThen(ui')
    BY <2>1, <2>2 DEF Moves
  <2>4. ASSUME NEW t \in Threads, th'[t].at = "store" PROVE SaysThen(th'[t].draft)
    BY <2>1, <2>2, <2>4 DEF Moves
  <2> QED
    BY <2>3, <2>4 DEF ScreensOK, SaysOK, SaysThen
<1>7. StoresOK'
  BY DEF QueueInv, StoresOK, Moves, Pos
<1> QED
  BY <1>2, <1>3, <1>5, <1>6, <1>7 DEF QueueInv

\* What becomes of a ticket that the thread keeps.
LEMMA TicketKept ==
  ASSUME StagedOK, batch'.ticket = batch.ticket, batch.ticket => batch'.pin = batch.pin,
         device'.staged = device.staged, device'.key = device.key,
         faults' \in Nat, faults <= faults', device.key \in Keys
  PROVE  StagedOK'
  BY DEF StagedOK, Keys

\* Marking an item says nothing of a result.
LEMMA MarkSays ==
  ASSUME ScreenOK(ui, approved), SaysOK(ui), NEW i,
         NEW state \in States \ {"completed", "skipped", "cancelled"}
  PROVE  SaysOK(Mark(i, state))
<1> SUFFICES ASSUME NEW j \in Uploads
             PROVE  Says(Mark(i, state), j, device.published[j], Pending(j))
  BY DEF SaysOK
<1>1. Mark(i, state).transfers[j] \in {ui.transfers[j], state}
  BY DEF Mark, ScreenOK, Screen, Transfers
<1> QED
  BY <1>1 DEF SaysOK, Says

\* Marking an item as finished is true if its upload is.
LEMMA MarkResultSays ==
  ASSUME ScreenOK(ui, approved), SaysOK(ui), NEW i, NEW state,
         i \in Uploads /\ state = "completed" => device.published[i] = 1,
         i \in Uploads /\ state \in {"skipped", "cancelled"} =>
           device.published[i] = 0 /\ ~Pending(i)
  PROVE  SaysOK(Mark(i, state))
<1> SUFFICES ASSUME NEW j \in Uploads
             PROVE  Says(Mark(i, state), j, device.published[j], Pending(j))
  BY DEF SaysOK
<1>1. Says(ui, j, device.published[j], Pending(j))
  BY DEF SaysOK
<1>2. CASE i = j
  <2>1. Mark(i, state).transfers[j] \in {ui.transfers[j], state}
    BY DEF Mark, ScreenOK, Screen, Transfers
  <2> QED
    BY <1>1, <1>2, <2>1 DEF Says
<1>3. CASE i # j
  <2>1. Mark(i, state).transfers[j] = ui.transfers[j]
    BY <1>3 DEF Mark, ScreenOK, Screen, Transfers
  <2> QED
    BY <1>1, <2>1 DEF Says
<1> QED
  BY <1>2, <1>3

\* A screen with the same list says the same.
LEMMA SameListSays ==
  ASSUME SaysOK(ui), NEW new, new.transfers = ui.transfers
  PROVE  SaysOK(new)
  BY DEF SaysOK, Says

\* A step that concerns threads and screen only: the batch goes on with its item,
\* or drops it.
LEMMA StepKeeps ==
  ASSUME PinInv, QueueInv, NEW t \in Threads, NEW local, NEW new, NEW where,
         Moves(t, local, new, where),
         where # "new", t = "main" /\ where = "launch" => Pos(th["main"]) = "launch",
         ThreadAt(t, local, where), SaysOK(new),
         t = "batch" =>
           /\ Pos(batch) # "new"
           /\ local.item \in {batch.item, None}
           /\ UnderwayAt(local, where) => UnderwayAt(batch, Pos(batch))
           /\ where \in {"completed", "skipped", "cancelled"} /\ where # Pos(batch) =>
                where = "cancelled" /\ UnderwayAt(batch, Pos(batch))
           /\ local.ticket = batch.ticket /\ (batch.ticket => local.pin = batch.pin),
         UNCHANGED <<queue, conflictDecision, device, history>>,
         faults' \in Nat, faults <= faults'
  PROVE  QueueInv'
<1>1. AskedOK' /\ Asked' = Asked
  BY DEF QueueInv, AskedOK, Asked, queue, history
<1>2. CASE t # "batch"
  <2>1. Pos(batch)' = Pos(batch) /\ (t # "main" => Pos(th["main"])' = Pos(th["main"]))
    BY <1>2 DEF Moves, batch, Threads, Pos
  <2>2. t = "main" => Pos(th["main"])' = where
    BY DEF Moves, Pos
  <2>3. StartedOnce'
    BY <2>1, <2>2 DEF QueueInv, StartedOnce, queue
  <2> QED
    BY <1>1, <1>2, <2>3, OthersKeep DEF queue
<1>3. CASE t = "batch"
  <2>1. \A i \in Uploads : batch.item = i => UploadOK(i)
    BY DEF QueueInv, UploadsOK
  <2>2. device.key \in Keys /\ batch' = th'["batch"]
    BY DEF PinInv, RestOK, batch
  <2>3. DeviceOK' /\ StagedOK'
    BY <1>3, <2>2, TicketKept DEF Moves, QueueInv, DeviceOK
  <2>4. ASSUME NEW i \in Uploads, local.item = i
        PROVE  /\ i \notin todo'
               /\ UnderwayAt(local, where) => Pending(i) /\ device'.published[i] = 0
               /\ where \in {"skipped", "cancelled"} => device'.published[i] = 0
               /\ where = "completed" => device'.published[i] = 1
    <3>1. batch.item = i /\ UploadOK(i)
      BY <1>3, <2>1, <2>4, NoneAssumption DEF Transfers
    <3>2. UnderwayAt(batch, Pos(batch)) => Pending(i)
      BY <3>1 DEF Pending
    <3> QED
      BY <1>3, <3>1, <3>2 DEF UploadOK, queue
  <2>5. /\ device' = device /\ policy' = policy /\ chosen' = chosen
        /\ todo' \subseteq todo
    BY DEF queue, history
  <2>6. /\ Moves("batch", local, new, where) /\ ThreadAt("batch", local, where)
        /\ Pos(batch) # "new"
    BY <1>3
  <2>7. \A i \in Uploads : \/ device'.published[i] = device.published[i]
                           \/ device'.published[i] = 1 /\ local.item = i /\ Pending(i)
    BY <2>5
  <2>8. \A i \in Uploads : local.item = i =>
          /\ i \notin todo'
          /\ UnderwayAt(local, where) => Pending(i) /\ device'.published[i] = 0
          /\ where \in {"skipped", "cancelled"} => device'.published[i] = 0
          /\ where = "completed" => device'.published[i] = 1
    BY <2>4
  <2> HIDE <1>3
  <2> QED
    BY <1>1, <2>3, <2>5, <2>6, <2>7, <2>8, BatchKeeps
<1> QED
  BY <1>2, <1>3

\* What a thread that acts knows of itself.
LEMMA Here ==
  ASSUME PinInv, QueueInv, NEW t \in Threads
  PROVE  /\ th \in [Threads -> Local] /\ th[t] \in Local
         /\ ScreenOK(ui, approved) /\ SaysOK(ui)
         /\ device.key \in Keys /\ faults \in Nat
         /\ ThreadAt(t, th[t], Pos(th[t]))
         /\ th[t].at # "store" => Pos(th[t]) = th[t].at
         /\ t = "batch" => batch = th[t]
         /\ \A i \in Uploads : UploadOK(i)
         /\ th[t].item \in Uploads => t = "batch"
<1>1. th \in [Threads -> Local] /\ ScreenOK(ui, approved) /\ device.key \in Keys
  BY DEF PinInv, LocalsOK, RestOK
<1>2. /\ SaysOK(ui) /\ faults \in Nat /\ \A i \in Uploads : UploadOK(i)
      /\ ThreadAt(t, th[t], Pos(th[t]))
  BY DEF QueueInv, ScreensOK, ThreadsOK, StagedOK, UploadsOK
<1>3. th[t].item \in Uploads => t = "batch"
  BY <1>2, NoneAssumption DEF ThreadAt, Transfers
<1> QED
  BY <1>1, <1>2, <1>3 DEF Pos, batch

-------------------------------------------------------------------------------
(***************************************************************************)
(* The queue is kept by the steps of a coroutine.                          *)
(***************************************************************************)
\* The screens that are about to be stored are as true as the one shown.
LEMMA StoreQueue ==
  ASSUME PinInv, QueueInv, NEW t \in Threads, Store(t)
  PROVE  QueueInv'
<1>1. th[t].at = "store" /\ th[t].next \in Landing
  BY DEF PinInv, LocalsOK, LocalOK, Store, At
<1>2. Moves(t, th[t], th[t].draft, Pos(th[t]))
  BY <1>1, Here, StoreMoves
<1>3. SaysOK(th[t].draft) /\ Pos(th[t]) # "new"
  BY <1>1 DEF QueueInv, StoresOK, ScreensOK, Pos
<1>4. UNCHANGED <<queue, conflictDecision, device, faults, history>>
  BY DEF Store, decisions
<1>5. faults' \in Nat /\ faults <= faults'
  BY <1>4, Here
<1> QED
  BY <1>2, <1>3, <1>4, <1>5, Here, StepKeeps

\* The block begins with the pin of the screen.
LEMMA TrustedQueue ==
  ASSUME PinInv, QueueInv, NEW t \in Threads, TrustedBlock(t)
  PROVE  QueueInv'
<1> DEFINE self == th[t]
           where == IF self.block = "upload" THEN "prepare" ELSE self.block
           local == [self EXCEPT !.pin = ui.pin]
<1>1. Go(t, local, where) /\ self.at = "trusted"
  BY DEF TrustedBlock, At
<1>2. /\ local \in Local /\ local.block = self.block /\ local.item = self.item
      /\ local.ticket = self.ticket /\ local.wire = self.wire
  <2>1. self \in Local /\ ScreenOK(ui, approved)
    BY Here
  <2> QED
    BY <2>1 DEF Local, ScreenOK, Screen
<1>3. self.block \in Blocks /\ where \in Landing
  <2>1. self.block \in Blocks
    BY <1>1 DEF PinInv, LocalsOK, LocalOK, Ready, Inside
  <2> QED
    BY <2>1, Where DEF Blocks, Calls
<1>4. ThreadAt(t, self, "trusted") /\ Pos(self) = "trusted"
  BY <1>1, Here
<1>5. ThreadAt(t, local, where)
  BY <1>2, <1>3, <1>4 DEF ThreadAt, BlockAt, Blocks
<1>6. UnderwayAt(local, where) => UnderwayAt(self, "trusted")
  BY <1>2, <1>3 DEF UnderwayAt, Blocks
<1>7. UNCHANGED <<queue, conflictDecision, device, faults, history>>
  BY DEF TrustedBlock, decisions
<1>8. ~self.ticket /\ where \notin {"new", "launch", "completed", "skipped", "cancelled"}
  BY <1>3, <1>4 DEF ThreadAt, Blocks
<1> HIDE DEF local, where
<1>9. Moves(t, local, ui, where)
  BY <1>1, <1>2, <1>3, Here, GoMoves
<1>10. faults' \in Nat /\ faults <= faults'
  BY <1>7, Here
<1> QED
  BY <1>2, <1>4, <1>5, <1>6, <1>7, <1>8, <1>9, <1>10, Here, StepKeeps

\* A call that fails; a commit goes on to cancel its ticket.
LEMMA RaisedQueue ==
  ASSUME PinInv, QueueInv, NEW t \in Threads, NEW key \in Keys \cup {None},
         th[t].at \in Calls, Raised(t, key),
         UNCHANGED <<queue, conflictDecision, device, history>>,
         faults' \in Nat, faults <= faults'
  PROVE  QueueInv'
<1> DEFINE self == th[t]
           where == IF self.at = "commit" THEN "cancel" ELSE Handler(key)
           local == [self EXCEPT !.wanted = key]
<1>1. Go(t, local, where) /\ where \in Landing
  BY Where DEF Raised, Handler
<1>2. /\ local \in Local /\ local.block = self.block /\ local.item = self.item
      /\ local.ticket = self.ticket /\ local.wire = self.wire /\ local.pin = self.pin
      /\ local.wanted = key
  <2>1. self \in Local
    BY Here
  <2> QED
    BY <2>1 DEF Local
<1>3. ThreadAt(t, self, self.at) /\ Pos(self) = self.at
  BY Here DEF Calls
<1>4. self.block \in Blocks
  BY DEF PinInv, LocalsOK, LocalOK, Ready, Inside, Calls
<1>5. where \in {"cancel", "ask", "failed"} /\ (where = "cancel" <=> self.at = "commit")
  BY DEF Handler
<1>6. ThreadAt(t, local, where)
  <2>1. /\ self.ticket => self.at = "commit"
        /\ where = "cancel" => self.block = "upload"
        /\ self.block # None
    BY <1>3, <1>4, <1>5, NoneAssumption DEF ThreadAt, BlockAt, Calls
  <2> QED
    BY <1>2, <1>3, <1>5, <2>1 DEF ThreadAt, BlockAt
<1>7. ASSUME t = "batch", UnderwayAt(local, where) PROVE UnderwayAt(self, self.at)
  <2>1. self.at \in {"exists", "prepare", "commit"} \/ self.block = "refresh"
    BY <1>3, <1>7, NoneAssumption DEF ThreadAt, BlockAt, BlocksOf, Calls, Blocks
  <2>2. self.at = "commit" => self.block # "refresh"
    BY <1>3 DEF ThreadAt, BlockAt
  <2> QED
    BY <1>2, <1>5, <1>7, <2>1, <2>2 DEF UnderwayAt
<1> HIDE DEF local, where
<1>8. Moves(t, local, ui, where)
  BY <1>1, <1>2, Here, GoMoves
<1> QED
  BY <1>2, <1>3, <1>5, <1>6, <1>7, <1>8, Here, StepKeeps DEF Calls

\* The attempts to be approved: awaitTrust from the exception to the answer.
LEMMA ApprovalQueue ==
  ASSUME PinInv, QueueInv, NEW t \in Threads,
         AwaitTrust(t) \/ RequestTrust(t) \/ TrustDecided(t)
  PROVE  QueueInv'
<1> DEFINE self == th[t]
           asks == [self EXCEPT !.answer = None]
           awake == [self EXCEPT !.answer = None, !.wanted = None]
<1>1. /\ UNCHANGED <<queue, conflictDecision, device, faults, history>>
      /\ self.at \in {"ask", "request", "await"}
  BY DEF AwaitTrust, RequestTrust, TrustDecided, decisions, At
<1>2. ThreadAt(t, self, self.at) /\ Pos(self) = self.at /\ faults' \in Nat /\ faults <= faults'
  BY <1>1, Here
<1>3. \A state \in {"trust?", "running"} : SaysOK(Mark(activeTransferId, state))
  BY Here, MarkSays DEF States
<1>4. /\ asks \in Local /\ asks.block = self.block /\ asks.item = self.item
      /\ asks.ticket = self.ticket /\ asks.wire = self.wire /\ asks.pin = self.pin
  <2>1. self \in Local
    BY Here
  <2> QED
    BY <2>1 DEF Local
<1>5. /\ awake \in Local /\ awake.block = self.block /\ awake.item = self.item
      /\ awake.ticket = self.ticket /\ awake.wire = self.wire /\ awake.pin = self.pin
  <2>1. self \in Local
    BY Here
  <2> QED
    BY <2>1 DEF Local
<1> HIDE DEF asks, awake
<1>6. PICK local, new, where :
        /\ local \in {self, asks, awake}
        /\ where \in {"request", "await", "trusted", "finally", "report", "cancelled"}
        /\ Moves(t, local, new, where) /\ SaysOK(new)
        /\ where \in {"finally", "report", "cancelled"} => where = Rejected(t)
  <2>1. ASSUME AwaitTrust(t)
        PROVE  Moves(t, asks, ui, "request")
               \/ Moves(t, asks, Mark(activeTransferId, "trust?"), "request")
    BY <1>4, <2>1, Here, Where, MarkActiveMoves DEF AwaitTrust, asks
  <2>2. ASSUME RequestTrust(t)
        PROVE  LET new == [ui EXCEPT !.trust = self.wanted]
               IN  Moves(t, self, new, "await") /\ SaysOK(new)
    <3> DEFINE new == [ui EXCEPT !.trust = self.wanted]
    <3>1. Publish(t, self, new, "await")
      BY <2>2 DEF RequestTrust
    <3>2. new.transfers = ui.transfers
      BY Here DEF ScreenOK, Screen
    <3> HIDE DEF new
    <3>3. Moves(t, self, new, "await") /\ SaysOK(new)
      BY <3>1, <3>2, Here, Where, PublishMoves, SameListSays
    <3> QED
      BY <3>3 DEF new
  <2>3. ASSUME TrustDecided(t)
        PROVE  \/ Moves(t, awake, ui, "trusted")
               \/ Moves(t, awake, Mark(activeTransferId, "running"), "trusted")
               \/ Moves(t, awake, ui, Rejected(t))
    <3>1. MarkActive(t, awake, "running", "trusted") \/ Go(t, awake, Rejected(t))
      BY <2>3 DEF TrustDecided, awake
    <3>2. Rejected(t) \in Landing
      BY Where DEF Rejected
    <3> QED
      BY <1>5, <3>1, <3>2, Here, Where, MarkActiveMoves, GoMoves
  <2>4. Rejected(t) \in {"finally", "report", "cancelled"}
    BY DEF Rejected
  <2> DEFINE Goes(l, new, where) ==
               /\ Moves(t, l, new, where) /\ SaysOK(new)
               /\ where \in {"finally", "report", "cancelled"} => where = Rejected(t)
  <2>5. SaysOK(ui)
    BY Here
  <2>6. CASE AwaitTrust(t)
    <3>1. \E new : Goes(asks, new, "request")
      BY <1>3, <2>1, <2>5, <2>6
    <3> QED
      BY <3>1
  <2>7. CASE RequestTrust(t)
    <3>1. \E new : Goes(self, new, "await")
      BY <2>2, <2>7
    <3> QED
      BY <3>1
  <2>8. CASE TrustDecided(t)
    <3>1. \E new : Goes(awake, new, "trusted") \/ Goes(awake, new, Rejected(t))
      BY <1>3, <2>3, <2>5, <2>8
    <3> QED
      BY <3>1, <2>4
  <2> QED
    BY <2>6, <2>7, <2>8
<1>7. /\ local.block = self.block /\ local.item = self.item
      /\ local.ticket = self.ticket /\ local.wire = self.wire /\ local.pin = self.pin
  BY <1>4, <1>5, <1>6
<1>8. self.block # None /\ ~self.ticket /\ (where = "cancelled" => self.block # "refresh")
  BY <1>1, <1>2, <1>6 DEF ThreadAt, BlockAt, Rejected
<1>9. ThreadAt(t, local, where)
  BY <1>2, <1>6, <1>7, <1>8 DEF ThreadAt, BlockAt
<1>10. where \in {"request", "await", "trusted", "cancelled"} =>
         /\ UnderwayAt(local, where) => UnderwayAt(self, self.at)
         /\ where = "cancelled" => UnderwayAt(self, self.at)
  BY <1>1, <1>6, <1>7, <1>8 DEF UnderwayAt
<1>11. where \in {"finally", "report"} => ~UnderwayAt(local, where)
  BY <1>6 DEF UnderwayAt
<1> QED
  BY <1>1, <1>2, <1>6, <1>7, <1>8, <1>9, <1>10, <1>11, Here, StepKeeps

\* The calls that fail and the progress of a copy.
LEMMA CallQueue ==
  ASSUME PinInv, QueueInv, NEW t \in Threads,
         HostKeyRefused(t) \/ CallFails(t) \/ CommitRefused(t) \/ Progress(t)
  PROVE  QueueInv'
<1>1. UNCHANGED <<queue, conflictDecision, device, history>>
  BY DEF HostKeyRefused, CallFails, CommitRefused, Progress, decisions
<1>2. faults' \in Nat /\ faults <= faults'
  BY Here DEF HostKeyRefused, CallFails, CommitRefused, Progress
<1>3. CASE HostKeyRefused(t)
  BY <1>1, <1>2, <1>3, Here, RaisedQueue DEF HostKeyRefused
<1>4. CASE CallFails(t)
  BY <1>1, <1>2, <1>4, RaisedQueue DEF CallFails
<1>5. CASE CommitRefused(t)
  BY <1>1, <1>2, <1>5, RaisedQueue DEF CommitRefused, Connected, At, Calls
<1>6. CASE Progress(t)
  <2>1. /\ th[t].at \in {"commit", "fetch"}
        /\ Publish(t, th[t], Mark(th[t].item, "running"), th[t].at)
    BY <1>6 DEF Progress
  <2>2. Moves(t, th[t], Mark(th[t].item, "running"), th[t].at)
    BY <2>1, Here, Where, PublishMoves DEF Calls
  <2>3. SaysOK(Mark(th[t].item, "running"))
    BY Here, MarkSays DEF States
  <2>4. Pos(th[t]) = th[t].at
    BY <2>1, Here
  <2> QED
    BY <1>1, <1>2, <2>1, <2>2, <2>3, <2>4, Here, StepKeeps
<1> QED
  BY <1>3, <1>4, <1>5, <1>6

\* The ends of a transfer, good or bad, as the screen is told of them.
LEMMA EndQueue ==
  ASSUME PinInv, QueueInv, NEW t \in Threads,
         Finished(t) \/ Failed(t) \/ Cancelled(t)
  PROVE  QueueInv'
<1> DEFINE self == th[t]
           after == [self EXCEPT !.block = "refresh"]
<1>1. /\ UNCHANGED <<queue, conflictDecision, device, faults, history>>
      /\ self.at \in {"completed", "skipped", "failed", "cancelled"}
  BY DEF Finished, Failed, Cancelled, decisions, At
<1>2. ThreadAt(t, self, self.at) /\ Pos(self) = self.at /\ faults' \in Nat /\ faults <= faults'
  BY <1>1, Here
<1>3. SaysOK(Mark(self.item, self.at)) /\ SaysOK(ui)
  <2>1. ASSUME self.item \in Uploads
        PROVE  /\ self.at = "completed" => device.published[self.item] = 1
               /\ self.at \in {"skipped", "cancelled"} =>
                    device.published[self.item] = 0 /\ ~Pending(self.item)
    <3>1. batch = self /\ UploadOK(self.item)
      BY <2>1, Here
    <3>2. ~UnderwayAt(self, self.at)
      BY <1>1 DEF UnderwayAt
    <3> QED
      BY <1>1, <1>2, <3>1, <3>2 DEF UploadOK, Pending
  <2> QED
    BY <2>1, Here, MarkResultSays
<1>4. /\ after \in Local /\ after.block = "refresh" /\ after.item = self.item
      /\ after.ticket = self.ticket /\ after.wire = self.wire /\ after.pin = self.pin
  <2>1. self \in Local
    BY Here
  <2> QED
    BY <2>1 DEF Local, Blocks
<1> HIDE DEF after
<1>5. PICK new, local, where :
        /\ SaysOK(new) /\ Moves(t, local, new, where)
        /\ \/ local = self /\ where \in {"finally", "report"}
           \/ t = "batch" /\ local = after /\ where = "trusted"
  <2>1. CASE Finished(t)
    <3>1. CASE t = "batch"
      <4>1. Publish(t, after, Mark(self.item, self.at), "trusted")
        BY <2>1, <3>1 DEF Finished, after
      <4>2. Moves(t, after, Mark(self.item, self.at), "trusted")
        BY <1>4, <4>1, Here, Where, PublishMoves
      <4> QED
        BY <1>3, <3>1, <4>2
    <3>2. CASE t # "batch"
      <4>1. Moves(t, self, Mark(self.item, self.at), "finally")
        BY <2>1, <3>2, Here, Where, PublishMoves DEF Finished
      <4> QED
        BY <1>3, <4>1
    <3> QED
      BY <3>1, <3>2
  <2>2. CASE Failed(t)
    <3>1. self.at = "failed"
      BY <2>2 DEF Failed, At
    <3>2. \/ Go(t, self, "finally") \/ Go(t, self, "report")
          \/ Publish(t, self, Mark(self.item, "failed"), "report")
      BY <2>2 DEF Failed
    <3>3. \/ Moves(t, self, ui, "finally") \/ Moves(t, self, ui, "report")
          \/ Moves(t, self, Mark(self.item, self.at), "report")
      BY <3>1, <3>2, Here, Where, GoMoves, PublishMoves
    <3> QED
      BY <1>3, <3>3
  <2>3. CASE Cancelled(t)
    <3>1. self.at = "cancelled"
      BY <2>3 DEF Cancelled, At
    <3>2. Publish(t, self, Mark(self.item, self.at), "finally")
      BY <2>3, <3>1 DEF Cancelled
    <3>3. Moves(t, self, Mark(self.item, self.at), "finally")
      BY <3>2, Here, Where, PublishMoves
    <3> QED
      BY <1>3, <3>3
  <2> QED
    BY <2>1, <2>2, <2>3
<1>6. ~self.ticket
  BY <1>1, <1>2 DEF ThreadAt
<1>7. ThreadAt(t, local, where)
  <2>1. "refresh" \in BlocksOf("batch") /\ "refresh" # None
    BY NoneAssumption DEF BlocksOf, Blocks
  <2> QED
    BY <1>2, <1>4, <1>5, <1>6, <2>1 DEF ThreadAt, BlockAt
<1>8. ~UnderwayAt(local, where)
  BY <1>4, <1>5 DEF UnderwayAt
<1> QED
  BY <1>1, <1>2, <1>4, <1>5, <1>6, <1>7, <1>8, Here, StepKeeps

\* A thread that is done with an item, or altogether.
LEMMA FreshThread ==
  ASSUME NEW t, NEW where \in {"idle", "next", "begin", "over"}
  PROVE  /\ ThreadAt(t, Fresh(where), where)
         /\ Fresh(where).at = where /\ Pos(Fresh(where)) = where
         /\ Fresh(where).item = None /\ Fresh(where).block = None
         /\ Fresh(where).ticket = FALSE /\ Fresh(where).wire = None
         /\ ~UnderwayAt(Fresh(where), where)
  BY NoneAssumption DEF ThreadAt, BlockAt, BlocksOf, Fresh, Pos, UnderwayAt, Policies

LEMMA OverQueue ==
  ASSUME PinInv, QueueInv, NEW t \in Threads, Report(t) \/ Finally(t)
  PROVE  QueueInv'
<1> DEFINE self == th[t]
<1>1. /\ UNCHANGED <<queue, conflictDecision, device, faults, history>>
      /\ self.at \in {"report", "finally"}
  BY DEF Report, Finally, decisions, At
<1>2. ThreadAt(t, self, self.at) /\ Pos(self) = self.at /\ faults' \in Nat /\ faults <= faults'
  BY <1>1, Here
<1>3. self.ticket = FALSE
  BY <1>1, <1>2, Here DEF ThreadAt, Local
<1>4. CASE Report(t) /\ t # "view"
  <2>1. Moves(t, self, ui, "finally")
    BY <1>4, Here, Where, PublishMoves DEF Report
  <2>2. ThreadAt(t, self, "finally") /\ ~UnderwayAt(self, "finally")
    BY <1>2, <1>3 DEF ThreadAt, BlockAt, UnderwayAt
  <2> QED
    BY <1>1, <1>2, <2>1, <2>2, Here, StepKeeps
<1>5. CASE Report(t) /\ t = "view"
  <2>1. Fresh("over") \in Local
    BY FreshCarries, Where DEF Carries
  <2>2. Moves(t, Fresh("over"), ui, "over")
    BY <1>5, <2>1, Here, Where, PublishMoves DEF Report
  <2> QED
    BY <1>1, <1>2, <1>5, <2>2, Here, StepKeeps, FreshThread
<1>6. CASE Finally(t)
  <2>1. PICK where \in {"next", "over"} : th' = [th EXCEPT ![t] = Fresh(where)] /\ ui' = ui
    BY <1>6 DEF Finally, screen
  <2>2. /\ Fresh(where).at = where /\ ThreadAt(t, Fresh(where), where)
        /\ Fresh(where).item = None /\ Fresh(where).ticket = FALSE
        /\ ~UnderwayAt(Fresh(where), where)
    BY FreshThread
  <2>3. th'[t] = Fresh(where) /\ \A u \in Threads \ {t} : th'[u] = th[u]
    BY <2>1, Here
  <2>4. Moves(t, Fresh(where), ui, where)
    BY <2>1, <2>2, <2>3 DEF Moves, Pos
  <2> QED
    BY <1>1, <1>2, <1>3, <2>1, <2>2, <2>4, Here, StepKeeps
<1> QED
  BY <1>4, <1>5, <1>6

-------------------------------------------------------------------------------
(***************************************************************************)
(* The queue is kept by the upload itself.                                 *)
(***************************************************************************)
\* Only the batch uploads.
LEMMA OnlyTheBatch ==
  ASSUME PinInv, QueueInv, NEW t \in Threads, th[t].at \in {"prepare", "commit", "cancel"}
  PROVE  t = "batch" /\ th[t].block = "upload"
<1>1. ThreadAt(t, th[t], th[t].at)
  BY Here
<1> QED
  BY <1>1, NoneAssumption DEF ThreadAt, BlockAt, BlocksOf, Blocks

\* How many tickets are on the card, after a ticket is given up or taken.
LEMMA StagedAfter ==
  ASSUME QueueInv, device.key \in Keys, device'.key = device.key,
         device'.staged \in Nat, faults' \in Nat,
         IF batch'.ticket
         THEN batch'.pin = device.key /\ 1 <= device'.staged /\ device'.staged <= faults' + device.key
         ELSE device'.staged <= faults' + device.key - 1
  PROVE  StagedOK'
  BY DEF StagedOK, Keys

LEMMA PrepareQueue ==
  ASSUME PinInv, QueueInv, NEW t \in Threads, PrepareUpload(t)
  PROVE  QueueInv'
<1> DEFINE local == [batch EXCEPT !.ticket = TRUE]
           lost == [batch EXCEPT !.wanted = None]
<1>1. t = "batch" /\ batch = th[t] /\ batch.at = "prepare" /\ batch.block = "upload"
  BY Here, OnlyTheBatch DEF PrepareUpload, Connected, At
<1>2. /\ UNCHANGED <<todo, policy, conflictDecision, chosen, replaced>>
      /\ device' = [device EXCEPT !.staged = @ + 1] /\ batch.pin = device.key
  BY <1>1 DEF PrepareUpload, queue, decisions, history, Connected, Accepts
<1>3. ThreadAt("batch", batch, "prepare") /\ Pos(batch) = "prepare"
  BY <1>1, Here
<1>4. device \in [key : Keys, disk : [Paths -> Uploads \cup {"foreign", None}],
                  staged : Nat, published : [Uploads -> Nat]]
  BY DEF QueueInv, DeviceOK
<1>5. /\ device'.key = device.key /\ device'.published = device.published
      /\ device'.staged = device.staged + 1 /\ DeviceOK'
  BY <1>2, <1>4 DEF DeviceOK
<1>6. ~batch.ticket /\ device.staged <= faults + device.key - 1 /\ faults \in Nat
  BY <1>3 DEF ThreadAt, QueueInv, StagedOK
<1>7. /\ local \in Local /\ local.block = "upload" /\ local.item = batch.item
      /\ local.ticket = TRUE /\ local.wire = batch.wire /\ local.pin = batch.pin
  <2>1. batch \in Local
    BY <1>1, Here
  <2> QED
    BY <1>1, <2>1 DEF Local
<1>8. /\ lost \in Local /\ lost.block = "upload" /\ lost.item = batch.item
      /\ lost.ticket = batch.ticket /\ lost.wire = batch.wire
  <2>1. batch \in Local
    BY <1>1, Here
  <2> QED
    BY <1>1, <2>1 DEF Local
<1>9. \/ Go("batch", local, "commit") /\ faults' = faults
      \/ Go("batch", lost, "failed") /\ faults' = faults + 1
  BY <1>1 DEF PrepareUpload, Raised, Handler
<1> HIDE DEF local, lost
<1>10. PICK l \in {local, lost}, where \in {"commit", "failed"} :
         /\ Moves("batch", l, ui, where)
         /\ \/ l = local /\ where = "commit" /\ faults' = faults
            \/ l = lost /\ where = "failed" /\ faults' = faults + 1
  <2>1. Go("batch", local, "commit") => Moves("batch", local, ui, "commit")
    BY <1>1, <1>7, Here, Where, GoMoves DEF Calls
  <2>2. Go("batch", lost, "failed") => Moves("batch", lost, ui, "failed")
    BY <1>1, <1>8, Here, Where, GoMoves
  <2> QED
    BY <1>9, <2>1, <2>2
<1>11. batch'.ticket = l.ticket /\ batch'.pin = l.pin
  BY <1>10 DEF Moves, batch
<1>12. StagedOK'
  BY <1>2, <1>4, <1>5, <1>6, <1>7, <1>8, <1>10, <1>11, StagedAfter DEF Keys
<1>13. AskedOK'
  BY <1>2 DEF QueueInv, AskedOK, Asked
<1>14. ThreadAt("batch", l, where)
  BY <1>3, <1>6, <1>7, <1>8, <1>10 DEF ThreadAt, BlockAt
<1>15. ASSUME NEW i \in Uploads, l.item = i
       PROVE  /\ i \notin todo'
              /\ UnderwayAt(l, where) => Pending(i) /\ device'.published[i] = 0
  <2>1. batch.item = i /\ UploadOK(i)
    BY <1>1, <1>7, <1>8, <1>10, <1>15, Here
  <2>2. UnderwayAt(batch, "prepare")
    BY <1>1, <1>3 DEF UnderwayAt
  <2> QED
    BY <1>2, <1>3, <1>5, <2>1, <2>2 DEF UploadOK, Pending
<1>16. \A i \in Uploads : l.item = i =>
         /\ i \notin todo'
         /\ UnderwayAt(l, where) => Pending(i) /\ device'.published[i] = 0
         /\ where \in {"skipped", "cancelled"} => device'.published[i] = 0
         /\ where = "completed" => device'.published[i] = 1
  BY <1>10, <1>15
<1>17. \A i \in Uploads : device'.published[i] = device.published[i]
  BY <1>5
<1> QED
  BY <1>1, <1>2, <1>3, <1>5, <1>10, <1>12, <1>13, <1>14, <1>16, <1>17, Here, BatchKeeps

\* The ticket is given up, taken back or not.
LEMMA CancelQueue ==
  ASSUME PinInv, QueueInv, NEW t \in Threads, CancelUpload(t)
  PROVE  QueueInv'
<1> DEFINE local == [batch EXCEPT !.ticket = FALSE]
           where == Handler(batch.wanted)
<1>1. t = "batch" /\ batch = th[t] /\ batch.at = "cancel" /\ batch.block = "upload"
  BY Here, OnlyTheBatch DEF CancelUpload, At
<1>2. /\ UNCHANGED <<todo, policy, conflictDecision, chosen, replaced>>
      /\ Go("batch", local, where)
      /\ \/ /\ device' = [device EXCEPT !.staged = @ - 1] /\ faults' = faults
            /\ batch.ticket /\ batch.pin = device.key
         \/ /\ device' = device /\ faults' = faults + 1
            /\ batch.ticket /\ batch.pin = device.key
         \/ /\ device' = device /\ faults' = faults
            /\ ~(batch.ticket /\ batch.pin = device.key)
  BY <1>1 DEF CancelUpload, queue, decisions, history, Accepts
<1>3. ThreadAt("batch", batch, "cancel") /\ Pos(batch) = "cancel"
  BY <1>1, Here
<1>4. device \in [key : Keys, disk : [Paths -> Uploads \cup {"foreign", None}],
                  staged : Nat, published : [Uploads -> Nat]]
  BY DEF QueueInv, DeviceOK
<1>5. /\ batch.ticket => /\ 1 <= device.staged /\ device.staged <= faults + batch.pin
                         /\ batch.pin \in Keys /\ batch.pin <= device.key
      /\ ~batch.ticket => device.staged <= faults + device.key - 1
      /\ faults \in Nat /\ device.staged \in Nat /\ device.key \in Nat
  BY <1>4 DEF QueueInv, StagedOK, Keys
<1>6. /\ device'.key = device.key /\ device'.published = device.published
      /\ DeviceOK' /\ device'.staged \in Nat /\ faults' \in Nat
      /\ device'.staged <= faults' + device.key - 1
  <2>1. CASE device' = [device EXCEPT !.staged = @ - 1] /\ faults' = faults
             /\ batch.ticket /\ batch.pin = device.key
    <3>1. device'.staged = device.staged - 1 /\ device.staged - 1 \in Nat
      BY <1>4, <1>5, <2>1
    <3> QED
      BY <1>4, <1>5, <2>1, <3>1 DEF DeviceOK
  <2>2. CASE device' = device /\ faults' = faults + 1 /\ batch.ticket /\ batch.pin = device.key
    BY <1>4, <1>5, <2>2 DEF DeviceOK
  <2>3. CASE device' = device /\ faults' = faults /\ ~(batch.ticket /\ batch.pin = device.key)
    <3>1. device.staged <= faults + device.key - 1
      BY <1>5, <2>3 DEF Keys
    <3> QED
      BY <1>4, <1>5, <2>3, <3>1 DEF DeviceOK
  <2> QED
    BY <1>2, <2>1, <2>2, <2>3
<1>7. /\ local \in Local /\ local.block = "upload" /\ local.item = batch.item
      /\ local.ticket = FALSE /\ local.wire = batch.wire /\ local.wanted = batch.wanted
  <2>1. batch \in Local
    BY <1>1, Here
  <2> QED
    BY <1>1, <2>1 DEF Local
<1>8. where \in {"failed", "ask"} /\ (where = "ask" => batch.wanted # None)
  BY DEF Handler
<1> HIDE DEF local, where
<1>9. Moves("batch", local, ui, where)
  BY <1>1, <1>2, <1>7, <1>8, Here, Where, GoMoves
<1>10. StagedOK'
  <2>1. batch'.ticket = FALSE
    BY <1>7, <1>9 DEF Moves, batch
  <2> QED
    BY <1>6, <2>1, Here, StagedAfter
<1>11. AskedOK'
  BY <1>2 DEF QueueInv, AskedOK, Asked
<1>12. ThreadAt("batch", local, where)
  BY <1>3, <1>7, <1>8, NoneAssumption DEF ThreadAt, BlockAt, Blocks
<1>13. ASSUME NEW i \in Uploads, local.item = i
       PROVE  /\ i \notin todo'
              /\ UnderwayAt(local, where) => Pending(i) /\ device'.published[i] = 0
  <2>1. batch.item = i /\ UploadOK(i)
    BY <1>1, <1>7, <1>13, Here
  <2>2. UnderwayAt(local, where) => UnderwayAt(batch, "cancel")
    BY <1>8 DEF UnderwayAt
  <2> QED
    BY <1>2, <1>3, <1>6, <2>1, <2>2 DEF UploadOK, Pending
<1>14. \A i \in Uploads : local.item = i =>
         /\ i \notin todo'
         /\ UnderwayAt(local, where) => Pending(i) /\ device'.published[i] = 0
         /\ where \in {"skipped", "cancelled"} => device'.published[i] = 0
         /\ where = "completed" => device'.published[i] = 1
  BY <1>8, <1>13
<1>15. \A i \in Uploads : device'.published[i] = device.published[i]
  BY <1>6
<1>16. where # "new" /\ Pos(batch) # "new" /\ SaysOK(ui) /\ todo' \subseteq todo
  BY <1>1, <1>2, <1>3, <1>8, Here
<1> QED
  BY <1>2, <1>6, <1>9, <1>10, <1>11, <1>12, <1>14, <1>15, <1>16, BatchKeeps

\* The player acts on a commit, whether or not the reply comes back.
LEMMA CommitQueue ==
  ASSUME PinInv, QueueInv, NEW t \in Threads, CommitUpload(t)
  PROVE  QueueInv'
<1> DEFINE item == batch.item
           outcome == Outcome(item, batch.wire)
           here == outcome = "completed" /\ ~(Occupied(item) /\ batch.wire = "keep")
           done == [batch EXCEPT !.ticket = FALSE, !.wanted = None]
<1>1. t = "batch" /\ batch = th[t] /\ batch.at = "commit" /\ batch.block = "upload"
  BY Here, OnlyTheBatch DEF CommitUpload, Connected, At
<1>2. /\ UNCHANGED <<todo, policy, conflictDecision, chosen>>
      /\ device' = [device EXCEPT
                      !.staged = @ - 1,
                      !.disk[Dest[item]] = IF here THEN item ELSE @,
                      !.published[item] = IF outcome = "completed" THEN @ + 1 ELSE @]
      /\ replaced' = (replaced \/ (here /\ Occupied(item)))
      /\ outcome # "failed" /\ batch.pin = device.key
      /\ \/ Go("batch", done, outcome) /\ faults' = faults
         \/ Go("batch", done, "cancel") /\ faults' = faults + 1
  BY <1>1 DEF CommitUpload, queue, decisions, history, Connected, Accepts
<1>3. ThreadAt("batch", batch, "commit") /\ Pos(batch) = "commit" /\ batch.ticket
  <2>1. ThreadAt("batch", batch, "commit") /\ Pos(batch) = "commit"
    BY <1>1, Here
  <2> QED
    BY <2>1 DEF ThreadAt
<1>4. device \in [key : Keys, disk : [Paths -> Uploads \cup {"foreign", None}],
                  staged : Nat, published : [Uploads -> Nat]]
  BY DEF QueueInv, DeviceOK
<1>5. /\ 1 <= device.staged /\ device.staged <= faults + device.key
      /\ faults \in Nat /\ device.staged \in Nat /\ device.key \in Nat
  BY <1>2, <1>3, <1>4 DEF QueueInv, StagedOK, Keys
<1>6. outcome \in {"completed", "skipped"}
  BY <1>2 DEF Outcome
<1>7. item \in Uploads \cup {None} /\ (batch.wire = "replace" => Asked)
  BY <1>3 DEF ThreadAt
<1>8. here /\ Occupied(item) => batch.wire = "replace"
  BY DEF Outcome
<1>9. /\ done \in Local /\ done.block = "upload" /\ done.item = item
      /\ done.ticket = FALSE /\ done.wire = batch.wire /\ done.wanted = None
  <2> HIDE DEF outcome, here
  <2>1. batch \in Local
    BY <1>1, Here
  <2>2. done \in Local
    BY <2>1 DEF Local
  <2>3. /\ done.block = batch.block /\ done.item = item
        /\ done.ticket = FALSE /\ done.wire = batch.wire /\ done.wanted = None
    BY <2>1 DEF Local
  <2> QED
    BY <1>1, <2>2, <2>3
<1> HIDE DEF outcome, here, done, item
<1>10. /\ device'.key = device.key /\ device'.staged = device.staged - 1
       /\ device'.disk = [device.disk EXCEPT ![Dest[item]] = IF here THEN item ELSE @]
       /\ device'.published = [device.published EXCEPT
                                 ![item] = IF outcome = "completed" THEN @ + 1 ELSE @]
       /\ DOMAIN device' = DOMAIN device
       /\ device' \in [key : {device'.key}, disk : {device'.disk}, staged : {device'.staged},
                       published : {device'.published}]
  BY <1>2, <1>4
<1>11. DeviceOK'
  <2>1. device'.disk \in [Paths -> Uploads \cup {"foreign", None}]
    BY <1>4, <1>7, <1>10
  <2>2. device'.published \in [Uploads -> Nat]
    <3>1. item \in Uploads => device.published[item] + 1 \in Nat
      BY <1>4
    <3> QED
      BY <1>4, <1>10, <3>1
  <2>3. device'.staged \in Nat /\ device'.key \in Keys
    BY <1>4, <1>5, <1>10
  <2> QED
    BY <1>10, <2>1, <2>2, <2>3 DEF DeviceOK
<1>12. PICK where \in {outcome, "cancel"} : Moves("batch", done, ui, where) /\ faults' \in Nat
                                            /\ faults <= faults'
  BY <1>1, <1>2, <1>5, <1>6, <1>9, Here, Where, GoMoves
<1>13. StagedOK'
  <2>1. batch'.ticket = FALSE
    BY <1>9, <1>12 DEF Moves, batch
  <2> QED
    BY <1>4, <1>5, <1>10, <1>12, <2>1, StagedAfter
<1>14. AskedOK'
  BY <1>2, <1>7, <1>8 DEF QueueInv, AskedOK, Asked
<1>15. ThreadAt("batch", done, where) /\ where \in {"completed", "skipped", "cancel"}
  BY <1>3, <1>6, <1>9, <1>12 DEF ThreadAt, BlockAt, item
<1>16. ~UnderwayAt(done, where)
  BY <1>9, <1>15 DEF UnderwayAt
<1>17. \A i \in Uploads : item = i =>
         i \notin todo' /\ Pending(i) /\ device.published[i] = 0
  <2> SUFFICES ASSUME NEW i \in Uploads, item = i
               PROVE  i \notin todo' /\ Pending(i) /\ device.published[i] = 0
    OBVIOUS
  <2>1. batch.item = i /\ UploadOK(i)
    BY Here DEF item
  <2>2. UnderwayAt(batch, "commit")
    BY <1>1 DEF UnderwayAt
  <2> QED
    BY <1>2, <1>3, <2>1, <2>2 DEF UploadOK, Pending
<1>18. \A i \in Uploads :
         device'.published[i] = IF i = item /\ outcome = "completed" THEN 1 ELSE device.published[i]
  BY <1>4, <1>10, <1>17
<1>19. \A i \in Uploads : done.item = i =>
         /\ i \notin todo'
         /\ UnderwayAt(done, where) => Pending(i) /\ device'.published[i] = 0
         /\ where \in {"skipped", "cancelled"} => device'.published[i] = 0
         /\ where = "completed" => device'.published[i] = 1
  BY <1>6, <1>9, <1>12, <1>15, <1>16, <1>17, <1>18
<1>20. \A i \in Uploads : \/ device'.published[i] = device.published[i]
                          \/ device'.published[i] = 1 /\ done.item = i /\ Pending(i)
  BY <1>9, <1>17, <1>18
<1>21. where # "new" /\ Pos(batch) # "new" /\ SaysOK(ui) /\ todo' \subseteq todo
  BY <1>1, <1>2, <1>3, <1>15, Here
<1> QED
  BY <1>2, <1>11, <1>12, <1>13, <1>14, <1>15, <1>19, <1>20, <1>21, BatchKeeps

-------------------------------------------------------------------------------
(***************************************************************************)
(* The queue is kept by the batch, the download and the refresh.           *)
(***************************************************************************)
LEMMA NextQueue ==
  ASSUME PinInv, QueueInv, NextUpload
  PROVE  QueueInv'
<1>1. /\ "batch" \in Threads /\ batch = th["batch"] /\ batch.at = "next"
      /\ UNCHANGED <<policy, conflictDecision, device, faults, chosen, replaced>>
  BY DEF NextUpload, At, batch, Threads, decisions, history
<1>2. ThreadAt("batch", batch, "next") /\ Pos(batch) = "next" /\ ~batch.ticket
  <2>1. ThreadAt("batch", batch, "next") /\ Pos(batch) = "next"
    BY <1>1, Here
  <2> QED
    BY <2>1 DEF ThreadAt
<1>3. PICK i \in todo :
        /\ todo' = todo \ {i}
        /\ Publish("batch",
                   [batch EXCEPT !.item = i, !.wire = policy,
                                 !.block = IF policy = "fail" THEN "exists" ELSE "upload"],
                   Mark(i, "running"), "trusted")
  BY <1>1 DEF NextUpload
<1> DEFINE block == IF policy = "fail" THEN "exists" ELSE "upload"
           local == [batch EXCEPT !.item = i, !.wire = policy, !.block = block]
<1>4. i \in Uploads /\ policy \in Policies \cup {None} /\ todo \subseteq Uploads
  BY DEF PinInv, RestOK
<1>5. block \in {"exists", "upload"}
  OBVIOUS
<1>6. /\ local \in Local /\ local.item = i /\ local.wire = policy /\ local.block = block
      /\ local.ticket = batch.ticket /\ local.pin = batch.pin
  <2> HIDE DEF block
  <2>1. batch \in Local /\ i \in Transfers /\ block \in Blocks
    BY <1>1, <1>4, <1>5, Here DEF Transfers, Blocks
  <2>2. local \in Local
    BY <1>4, <2>1 DEF Local
  <2>3. /\ local.item = i /\ local.wire = policy /\ local.block = block
        /\ local.ticket = batch.ticket /\ local.pin = batch.pin
    BY <2>1 DEF Local
  <2> QED
    BY <2>2, <2>3
<1> HIDE DEF local, block
<1>7. Moves("batch", local, Mark(i, "running"), "trusted") /\ SaysOK(Mark(i, "running"))
  BY <1>1, <1>3, <1>6, Here, Where, PublishMoves, MarkSays DEF local, block, States
<1>8. ThreadAt("batch", local, "trusted")
  BY <1>2, <1>4, <1>5, <1>6, NoneAssumption DEF ThreadAt, BlockAt, BlocksOf, Asked, Blocks
<1>9. DeviceOK' /\ StagedOK'
  BY <1>1, <1>2, <1>6, <1>7, Here, TicketKept DEF Moves, QueueInv, DeviceOK, batch
<1>10. AskedOK'
  BY <1>1 DEF QueueInv, AskedOK, Asked
<1>11. Pending(i) /\ device.published[i] = 0
  BY <1>1, <1>4, Here DEF Pending, UploadOK
<1>12. \A j \in Uploads : local.item = j =>
         /\ j \notin todo'
         /\ UnderwayAt(local, "trusted") => Pending(j) /\ device'.published[j] = 0
         /\ "trusted" \in {"skipped", "cancelled"} => device'.published[j] = 0
         /\ "trusted" = "completed" => device'.published[j] = 1
  BY <1>1, <1>3, <1>6, <1>11
<1>13. \A j \in Uploads : device'.published[j] = device.published[j]
  BY <1>1
<1>14. Pos(batch) # "new" /\ todo' \subseteq todo
  BY <1>2, <1>3
<1> QED
  BY <1>1, <1>7, <1>8, <1>9, <1>10, <1>12, <1>13, <1>14, BatchKeeps

\* The steps of the batch that concern threads and screen only.
LEMMA BatchQueue ==
  ASSUME PinInv, QueueInv,
         BatchOver \/ DestinationExists \/ RequestConflict \/ RefreshAfterTransfer
  PROVE  QueueInv'
<1> DEFINE onward == [batch EXCEPT !.block = "upload"]
           dialog == [ui EXCEPT !.conflict = batch.item]
<1>1. /\ "batch" \in Threads /\ batch = th["batch"]
      /\ batch.at \in {"next", "exists", "dialog", "refresh"}
      /\ UNCHANGED <<queue, conflictDecision, device, faults, history>>
  BY DEF BatchOver, DestinationExists, RequestConflict, RefreshAfterTransfer, Connected, At,
         batch, Threads, decisions
<1>2. /\ ThreadAt("batch", batch, batch.at) /\ Pos(batch) = batch.at
      /\ faults' \in Nat /\ faults <= faults'
  BY <1>1, Here
<1>3. batch.ticket = FALSE /\ batch \in Local
  BY <1>1, <1>2, Here DEF ThreadAt, Local
<1>4. /\ onward \in Local /\ onward.block = "upload" /\ onward.item = batch.item
      /\ onward.ticket = batch.ticket /\ onward.wire = batch.wire /\ onward.pin = batch.pin
  BY <1>3 DEF Local, Blocks
<1>5. SaysOK(ui) /\ SaysOK(dialog)
  BY <1>1, Here, SameListSays DEF ScreenOK, Screen
<1> HIDE DEF onward, dialog
<1>6. \/ batch.at = "next" /\ Moves("batch", batch, ui, "over")
      \/ batch.at = "exists" /\ Moves("batch", batch, ui, "conflict")
      \/ batch.at = "exists" /\ Moves("batch", onward, ui, "trusted")
      \/ batch.at = "dialog" /\ Moves("batch", batch, dialog, "choose")
      \/ batch.at = "refresh" /\ Moves("batch", batch, ui, "finally")
  <2>1. CASE BatchOver
    BY <1>1, <1>3, <2>1, Here, Where, GoMoves DEF BatchOver, At
  <2>2. CASE DestinationExists
    <3>1. /\ batch.at = "exists"
          /\ Go("batch", batch, "conflict") \/ Go("batch", onward, "trusted")
      BY <1>1, <2>2 DEF DestinationExists, Connected, At, onward
    <3> QED
      BY <1>1, <1>3, <1>4, <3>1, Here, Where, GoMoves
  <2>3. CASE RequestConflict
    <3>1. batch.at = "dialog" /\ Publish("batch", batch, dialog, "choose")
      BY <1>1, <2>3 DEF RequestConflict, At, dialog
    <3> QED
      BY <1>1, <1>3, <3>1, Here, Where, PublishMoves
  <2>4. CASE RefreshAfterTransfer
    <3>1. batch.at = "refresh" /\ Publish("batch", batch, ui, "finally")
      BY <1>1, <2>4 DEF RefreshAfterTransfer, Connected, At
    <3> QED
      BY <1>1, <1>3, <3>1, Here, Where, PublishMoves
  <2> QED
    BY <2>1, <2>2, <2>3, <2>4
<1>7. PICK local, new, where :
        /\ Moves("batch", local, new, where) /\ SaysOK(new)
        /\ \/ local = batch /\ where = "conflict" /\ batch.at = "exists"
           \/ local = onward /\ where = "trusted" /\ batch.at = "exists"
           \/ local = batch /\ where = "choose" /\ batch.at = "dialog"
           \/ local = batch /\ where \in {"over", "finally"}
  BY <1>5, <1>6
<1>8. /\ ThreadAt("batch", local, where)
      /\ UnderwayAt(local, where) => UnderwayAt(batch, Pos(batch))
  <2>1. batch.at \in {"exists", "dialog"} => batch.block = "exists"
    BY <1>2 DEF ThreadAt, BlockAt
  <2>2. ThreadAt("batch", local, where)
    BY <1>2, <1>3, <1>4, <1>7, <2>1, NoneAssumption DEF ThreadAt, BlockAt, BlocksOf, Blocks
  <2> QED
    BY <1>2, <1>4, <1>7, <2>1, <2>2 DEF UnderwayAt
<1>9. /\ local.item = batch.item /\ local.ticket = batch.ticket /\ ~batch.ticket
      /\ where \notin {"new", "launch", "completed", "skipped", "cancelled"}
      /\ Pos(batch) # "new"
  BY <1>1, <1>2, <1>3, <1>4, <1>7
<1> QED
  BY <1>1, <1>2, <1>7, <1>8, <1>9, StepKeeps

\* The dialog about a file that is there, and its answer.
LEMMA ConflictQueue ==
  ASSUME PinInv, QueueInv, AwaitConflict \/ ConflictDecided
  PROVE  QueueInv'
<1> DEFINE onward == [batch EXCEPT !.wire = conflictDecision, !.block = "upload"]
           closed == [ui EXCEPT !.conflict = None]
           asked == Mark(batch.item, "decision?")
<1>1. /\ "batch" \in Threads /\ batch = th["batch"] /\ batch.at \in {"conflict", "choose"}
      /\ UNCHANGED <<queue, device, faults, history>>
  BY DEF AwaitConflict, ConflictDecided, At, batch, Threads
<1>2. ThreadAt("batch", batch, batch.at) /\ Pos(batch) = batch.at
  BY <1>1, Here
<1>3. batch.ticket = FALSE /\ batch \in Local /\ batch.block = "exists"
  BY <1>1, <1>2, Here DEF ThreadAt, BlockAt, Local
<1>4. SaysOK(closed) /\ SaysOK(asked)
  BY <1>1, Here, SameListSays, MarkSays DEF ScreenOK, Screen, States
<1>5. PICK local, new, where :
        /\ Moves("batch", local, new, where) /\ SaysOK(new)
        /\ local.item = batch.item /\ local.ticket = FALSE
        /\ \/ where = "dialog" /\ local = batch
           \/ where = "cancelled" /\ local = batch
           \/ /\ where = "trusted" /\ local.block = "upload"
              /\ local.wire = conflictDecision
        /\ where = "dialog" \/ conflictDecision' = None
        /\ where = "dialog" => conflictDecision' = "open"
  <2>1. CASE AwaitConflict
    <3>1. /\ conflictDecision' = "open"
          /\ Publish("batch", batch, asked, "dialog")
      BY <1>1, <2>1 DEF AwaitConflict
    <3> HIDE DEF asked
    <3>2. Moves("batch", batch, asked, "dialog")
      BY <1>1, <1>3, <3>1, Here, Where, PublishMoves
    <3> QED
      BY <1>3, <1>4, <3>1, <3>2
  <2>2. CASE ConflictDecided
    <3>1. /\ conflictDecision' = None
          /\ conflictDecision \in Policies \cup {"cancel"}
          /\ \/ Publish("batch", batch, closed, "cancelled")
             \/ conflictDecision # "cancel" /\ Publish("batch", onward, closed, "trusted")
      BY <1>1, <2>2 DEF ConflictDecided, PinInv, RestOK
    <3>2. CASE Publish("batch", batch, closed, "cancelled")
      <4> HIDE DEF closed
      <4>1. Moves("batch", batch, closed, "cancelled")
        BY <1>1, <1>3, <3>2, Here, Where, PublishMoves
      <4> QED
        BY <1>3, <1>4, <3>1, <4>1
    <3>3. CASE conflictDecision # "cancel" /\ Publish("batch", onward, closed, "trusted")
      <4>1. /\ onward \in Local /\ onward.block = "upload" /\ onward.item = batch.item
            /\ onward.ticket = FALSE /\ onward.wire = conflictDecision
        BY <1>3, <3>1, <3>3 DEF Local, Blocks
      <4> HIDE DEF closed, onward
      <4>2. Moves("batch", onward, closed, "trusted")
        BY <1>1, <3>3, <4>1, Here, Where, PublishMoves
      <4> QED
        BY <1>4, <3>1, <4>1, <4>2
    <3> QED
      BY <3>1, <3>2, <3>3
  <2> QED
    BY <2>1, <2>2
<1> HIDE DEF onward, closed, asked
<1>6. AskedOK' /\ Asked' = Asked
  BY <1>1, <1>5, NoneAssumption DEF QueueInv, AskedOK, Asked, queue, history, Policies
<1>7. ThreadAt("batch", local, where)
  <2>1. conflictDecision = "replace" => Asked
    BY DEF QueueInv, AskedOK, Asked
  <2>2. local.block \in {"exists", "upload"} /\ (local.wire = "replace" => Asked)
        /\ local.item \in Uploads \cup {None}
    BY <1>2, <1>3, <1>5, <2>1 DEF ThreadAt
  <2>3. where = "dialog" => local.block = "exists"
    BY <1>3, <1>5
  <2> QED
    BY <1>5, <2>2, <2>3, NoneAssumption DEF ThreadAt, BlockAt, BlocksOf, Blocks
<1>8. DeviceOK' /\ StagedOK'
  <2>1. batch'.ticket = batch.ticket /\ ~batch.ticket
    BY <1>3, <1>5 DEF Moves, batch
  <2>2. faults' \in Nat /\ faults <= faults' /\ device.key \in Keys
    BY <1>1, Here
  <2> QED
    BY <1>1, <2>1, <2>2, TicketKept DEF QueueInv, DeviceOK
<1>9. \A i \in Uploads : batch.item = i => Pending(i) /\ device.published[i] = 0 /\ i \notin todo
  <2> SUFFICES ASSUME NEW i \in Uploads, batch.item = i
               PROVE  Pending(i) /\ device.published[i] = 0 /\ i \notin todo
    OBVIOUS
  <2>1. UploadOK(i)
    BY <1>1, Here
  <2>2. UnderwayAt(batch, batch.at)
    BY <1>1, <1>3 DEF UnderwayAt
  <2> QED
    BY <1>2, <2>1, <2>2 DEF UploadOK, Pending
<1>10. \A i \in Uploads : local.item = i =>
         /\ i \notin todo'
         /\ UnderwayAt(local, where) => Pending(i) /\ device'.published[i] = 0
         /\ where \in {"skipped", "cancelled"} => device'.published[i] = 0
         /\ where = "completed" => device'.published[i] = 1
  BY <1>1, <1>5, <1>9 DEF queue
<1>11. \A i \in Uploads : device'.published[i] = device.published[i]
  BY <1>1
<1>12. /\ todo' \subseteq todo /\ policy' = policy /\ chosen' = chosen
       /\ Pos(batch) # "new" /\ where # "new"
  BY <1>1, <1>2, <1>5 DEF queue, history
<1> QED
  BY <1>5, <1>6, <1>7, <1>8, <1>10, <1>11, <1>12, BatchKeeps

\* The download, and the refresh of a directory.
LEMMA CompanionQueue ==
  ASSUME PinInv, QueueInv, BeginDownload \/ Fetched \/ Listed \/ Refresh
  PROVE  QueueInv'
<1> DEFINE local == [th["fetch"] EXCEPT !.item = Download, !.block = "fetch"]
           looks == [Fresh("idle") EXCEPT !.block = "list"]
<1>1. /\ {"fetch", "view"} \subseteq Threads
      /\ UNCHANGED <<queue, conflictDecision, device, faults, history>>
  BY DEF BeginDownload, Fetched, Listed, Refresh, Threads, decisions
<1>2. faults' \in Nat /\ faults <= faults'
  BY <1>1, Here
<1>3. CASE BeginDownload
  <2>1. th["fetch"].at = "begin" /\ Publish("fetch", local, Mark(Download, "running"), "trusted")
    BY <1>3 DEF BeginDownload, At
  <2>2. ThreadAt("fetch", th["fetch"], "begin")
    BY <1>1, <2>1, Here
  <2>3. /\ local \in Local /\ local.item = Download /\ local.block = "fetch"
        /\ local.ticket = th["fetch"].ticket /\ local.wire = th["fetch"].wire
    <3>1. th["fetch"] \in Local
      BY <1>1, Here
    <3> QED
      BY <3>1 DEF Local, Transfers, Blocks
  <2> HIDE DEF local
  <2>4. Moves("fetch", local, Mark(Download, "running"), "trusted")
        /\ SaysOK(Mark(Download, "running"))
    BY <1>1, <2>1, <2>3, Here, Where, PublishMoves, MarkSays DEF States
  <2>5. ThreadAt("fetch", local, "trusted")
    BY <2>2, <2>3, NoneAssumption DEF ThreadAt, BlockAt, BlocksOf, Blocks
  <2> QED
    BY <1>1, <1>2, <2>4, <2>5, StepKeeps
<1>4. CASE Fetched
  <2>1. th["fetch"].at = "fetch" /\ Go("fetch", th["fetch"], "completed")
    BY <1>4 DEF Fetched, Connected, At
  <2>2. ThreadAt("fetch", th["fetch"], "fetch")
    BY <1>1, <2>1, Here
  <2>3. Moves("fetch", th["fetch"], ui, "completed")
    BY <1>1, <2>1, Here, Where, GoMoves
  <2>4. ThreadAt("fetch", th["fetch"], "completed")
    BY <2>2 DEF ThreadAt, BlockAt
  <2> QED
    BY <1>1, <1>2, <2>3, <2>4, Here, StepKeeps
<1>5. CASE Listed
  <2>1. Fresh("over") \in Local
    BY <1>1, FreshCarries, Where DEF Carries
  <2>2. Moves("view", Fresh("over"), ui, "over")
    BY <1>1, <1>5, <2>1, Here, Where, PublishMoves DEF Listed
  <2> QED
    BY <1>1, <1>2, <2>2, Here, FreshThread, StepKeeps
<1>6. CASE Refresh
  <2>1. Publish("view", looks, ui, "trusted")
    BY <1>6 DEF Refresh
  <2>2. Fresh("idle") \in Local
    BY <1>1, FreshCarries, Where DEF Carries
  <2>3. /\ looks \in Local /\ looks.block = "list" /\ looks.item = None
        /\ looks.ticket = FALSE /\ looks.wire = None
    BY <2>2, FreshThread DEF Local, Blocks
  <2> HIDE DEF looks
  <2>4. Moves("view", looks, ui, "trusted")
    BY <1>1, <2>1, <2>3, Here, Where, PublishMoves
  <2>5. ThreadAt("view", looks, "trusted")
    BY <2>3, NoneAssumption DEF ThreadAt, BlockAt, BlocksOf, Blocks, Policies
  <2> QED
    BY <1>1, <1>2, <2>4, <2>5, Here, StepKeeps
<1> QED
  BY <1>3, <1>4, <1>5, <1>6

-------------------------------------------------------------------------------
(***************************************************************************)
(* The queue is kept by the taps and by the player.                        *)
(***************************************************************************)
\* The taps that move main on.
LEMMA TapQueue ==
  ASSUME PinInv, QueueInv,
         \/ DownloadSingleTo \/ AcceptTrust \/ RejectTrust \/ DismissTrust
         \/ ResetPinnedHostKey \/ NoticeReset
  PROVE  QueueInv'
<1> DEFINE self == th["main"]
           yes == [self EXCEPT !.answer = "yes"]
           no == [self EXCEPT !.answer = "no"]
<1>1. /\ "main" \in Threads
      /\ UNCHANGED <<queue, conflictDecision, device, faults, chosen, replaced>>
      /\ self.at \in {"idle", "dismiss", "notice"}
  BY DEF DownloadSingleTo, AcceptTrust, RejectTrust, DismissTrust, ResetPinnedHostKey,
         NoticeReset, Tap, Idle, At, Threads, decisions, history
<1>2. faults' \in Nat /\ faults <= faults' /\ ThreadAt("main", self, self.at)
  BY <1>1, Here
<1>3. self.block = None /\ ~self.ticket
  BY <1>1, <1>2 DEF ThreadAt, BlocksOf
<1>4. /\ yes \in Local /\ yes.block = None /\ yes.item = self.item
      /\ yes.ticket = self.ticket /\ yes.wire = self.wire
      /\ no \in Local /\ no.block = None /\ no.item = self.item
      /\ no.ticket = self.ticket /\ no.wire = self.wire
  <2>1. self \in Local
    BY <1>1, Here
  <2> QED
    BY <1>1, <1>3, <2>1 DEF Local
<1> HIDE DEF yes, no
<1>5. self.at = "dismiss" => self.answer \in {"yes", "no"}
  BY <1>1 DEF PinInv, LocalsOK, LocalOK, Ready
<1>6. PICK local, new, where :
        /\ Moves("main", local, new, where) /\ SaysOK(new)
        /\ local \in {self, yes, no}
        /\ where \in {"launchFetch", "dismiss", "yes", "no", "notice", "idle"}
  <2>1. ASSUME NEW new, new.transfers = ui.transfers, NEW local \in {self, yes, no},
               NEW where \in {"launchFetch", "dismiss", "yes", "no", "notice", "idle"},
               Go("main", local, where) \/ Publish("main", local, new, where)
        PROVE  \E n : Moves("main", local, n, where) /\ SaysOK(n)
    <3>1. SaysOK(new) /\ SaysOK(ui)
      BY <1>1, <2>1, Here, SameListSays
    <3>2. Moves("main", local, ui, where) \/ Moves("main", local, new, where)
      BY <1>1, <1>4, <2>1, Here, Where, GoMoves, PublishMoves
    <3> QED
      BY <3>1, <3>2
  <2>2. CASE DownloadSingleTo
    <3> DEFINE new == [ui EXCEPT !.transfers[Download] = "queued"]
    <3>1. Publish("main", self, new, "launchFetch")
      BY <2>2 DEF DownloadSingleTo
    <3>2. SaysOK(new)
      <4>1. \A i \in Uploads : new.transfers[i] = ui.transfers[i]
        BY <1>1, Here, NoneAssumption DEF ScreenOK, Screen, Transfers
      <4> HIDE DEF new
      <4> QED
        BY <1>1, <4>1, Here DEF SaysOK, Says
    <3> HIDE DEF new
    <3>3. Moves("main", self, new, "launchFetch")
      BY <1>1, <3>1, Here, Where, PublishMoves
    <3> QED
      BY <3>2, <3>3
  <2>3. CASE AcceptTrust
    <3>1. Publish("main", yes, [ui EXCEPT !.pin = ui.trust], "dismiss")
      BY <2>3 DEF AcceptTrust, yes
    <3>2. [ui EXCEPT !.pin = ui.trust].transfers = ui.transfers
      BY <1>1, Here DEF ScreenOK, Screen
    <3> QED
      BY <2>1, <3>1, <3>2
  <2>4. CASE RejectTrust
    BY <2>1, <2>4 DEF RejectTrust, no
  <2>5. CASE DismissTrust
    <3>1. Publish("main", self, [ui EXCEPT !.trust = None], self.answer)
          /\ self.answer \in {"yes", "no"}
      BY <1>5, <2>5 DEF DismissTrust, At
    <3>2. [ui EXCEPT !.trust = None].transfers = ui.transfers
      BY <1>1, Here DEF ScreenOK, Screen
    <3> QED
      BY <2>1, <3>1, <3>2
  <2>6. CASE ResetPinnedHostKey
    <3>1. Publish("main", self, [ui EXCEPT !.pin = None], "notice")
      BY <2>6 DEF ResetPinnedHostKey
    <3>2. [ui EXCEPT !.pin = None].transfers = ui.transfers
      BY <1>1, Here DEF ScreenOK, Screen
    <3> QED
      BY <2>1, <3>1, <3>2
  <2>7. CASE NoticeReset
    BY <2>1, <2>7 DEF NoticeReset
  <2> QED
    BY <2>2, <2>3, <2>4, <2>5, <2>6, <2>7
<1>7. ThreadAt("main", local, where)
  <2>1. local.block = None /\ ~local.ticket /\ local.item = self.item /\ local.wire = self.wire
    BY <1>3, <1>4, <1>6
  <2> QED
    BY <1>2, <1>6, <2>1 DEF ThreadAt, BlockAt, BlocksOf
<1>8. AskedOK' /\ Asked' = Asked
  BY <1>1 DEF QueueInv, AskedOK, Asked, queue
<1>9. StartedOnce'
  <2>1. Pos(th'["main"]) = where /\ batch' = batch
    BY <1>1, <1>6 DEF Moves, batch, Threads
  <2>2. Pos(batch)' = Pos(batch)
    BY <2>1 DEF Pos
  <2> QED
    BY <1>1, <1>6, <2>1, <2>2 DEF QueueInv, StartedOnce, queue
<1> QED
  BY <1>1, <1>2, <1>6, <1>7, <1>8, <1>9, OthersKeep DEF queue

LEMMA ConfirmQueue ==
  ASSUME PinInv, QueueInv, NEW p \in Policies, ConfirmUploads(p)
  PROVE  QueueInv'
<1> DEFINE self == th["main"]
           listed == [i \in Transfers |-> IF i \in Uploads THEN "queued" ELSE ui.transfers[i]]
           new == [ui EXCEPT !.transfers =
                     [i \in Transfers |-> IF i \in Uploads THEN "queued" ELSE @[i]]]
<1>1. /\ "main" \in Threads /\ self.at = "idle" /\ policy = None /\ policy' = p
      /\ UNCHANGED <<todo, conflictDecision, device, faults, chosen, replaced>>
      /\ Publish("main", self, new, "launch")
  BY DEF ConfirmUploads, Idle, At, Threads, decisions, history
<1>2. new.transfers = listed
  BY <1>1, Here DEF ScreenOK, Screen
<1>3. SaysOK(new)
  BY <1>2 DEF SaysOK, Says, Transfers
<1> HIDE DEF new, listed
<1>4. Moves("main", self, new, "launch")
  BY <1>1, Here, Where, PublishMoves
<1>5. Asked => Asked'
  BY <1>1, NoneAssumption DEF Asked, Policies
<1>6. AskedOK'
  BY <1>1, <1>5 DEF QueueInv, AskedOK
<1>7. Pos(batch)' = "new"
  <2>1. Pos(batch) = "new" /\ batch' = batch
    BY <1>1, <1>4 DEF QueueInv, StartedOnce, Moves, batch, Threads
  <2> QED
    BY <2>1 DEF Pos
<1>8. StartedOnce'
  BY <1>1, <1>7, NoneAssumption DEF StartedOnce
<1>9. ThreadAt("main", self, "launch")
  <2>1. ThreadAt("main", self, "idle")
    BY <1>1, Here
  <2> QED
    BY <2>1 DEF ThreadAt, BlockAt
<1>10. faults' \in Nat /\ faults <= faults'
  BY <1>1, Here
<1> QED
  BY <1>1, <1>3, <1>4, <1>5, <1>6, <1>8, <1>9, <1>10, OthersKeep

\* Until the batch starts, everything is pending: no screen says anything of a result.
LEMMA LaunchQueue ==
  ASSUME PinInv, QueueInv, ProcessUploadBatch
  PROVE  QueueInv'
<1>1. /\ {"main", "batch"} \subseteq Threads /\ th["main"].at = "launch"
      /\ todo' = Uploads
      /\ th' = [th EXCEPT !["main"] = Fresh("idle"), !["batch"] = Fresh("next")]
      /\ UNCHANGED <<ui, policy, conflictDecision, device, faults, chosen, replaced>>
  BY DEF ProcessUploadBatch, At, Threads, screen, decisions, history
<1>2. Pos(batch) = "new" /\ policy # None
  BY <1>1 DEF QueueInv, StartedOnce, Pos
<1>3. /\ th'["main"] = Fresh("idle") /\ batch' = Fresh("next") /\ th'["batch"] = Fresh("next")
      /\ \A t \in Threads \ {"main", "batch"} : th'[t] = th[t]
  BY <1>1, Here DEF batch
<1>4. ThreadsOK'
  <2> SUFFICES ASSUME NEW t \in Threads PROVE ThreadAt(t, th[t], Pos(th[t]))'
    BY DEF ThreadsOK
  <2>1. \A where \in {"idle", "next"} :
          Pos(Fresh(where)) = where /\ ThreadAt(t, Fresh(where), where)
    BY FreshThread
  <2>2. CASE t \in {"main", "batch"}
    <3>1. \A where \in {"idle", "next"} : ThreadAt(t, Fresh(where), where)'
      BY <1>1, <2>1 DEF ThreadAt, Asked
    <3> QED
      BY <1>3, <2>1, <2>2, <3>1 DEF Pos
  <2>3. CASE t \notin {"main", "batch"}
    BY <1>1, <1>3, <2>3, Here DEF ThreadAt, Asked, Pos
  <2> QED
    BY <2>2, <2>3
<1>5. \A where \in {"idle", "next"} : Fresh(where).at = where
  BY FreshThread
<1>6. StoresOK'
  BY <1>3, <1>5 DEF QueueInv, StoresOK
<1>7. Pos(th["main"])' = "idle" /\ Pos(batch)' = "next"
  BY <1>3, <1>5 DEF Pos
<1>8. StartedOnce'
  BY <1>1, <1>2, <1>7 DEF StartedOnce
<1>9. \A i \in Uploads : device.published[i] = 0 /\ Pending(i)
  BY <1>1, <1>2, Here DEF UploadOK, Pending
<1>10. UploadsOK'
  <2>1. batch'.item = None
    BY <1>3, FreshThread
  <2>2. \A i \in Uploads : batch'.item # i
    BY <2>1, NoneAssumption DEF Transfers
  <2> QED
    BY <1>1, <1>9, <2>2 DEF UploadsOK, UploadOK
<1>11. ScreensOK'
  <2> DEFINE SaysThen(s) == \A i \in Uploads : Says(s, i, device'.published[i], Pending(i)')
  <2>1. ASSUME NEW s, SaysOK(s) PROVE SaysThen(s)
    BY <1>1, <1>9, <2>1 DEF SaysOK, Says
  <2>2. SaysOK(ui) /\ \A t \in Threads : th[t].at = "store" => SaysOK(th[t].draft)
    BY DEF QueueInv, ScreensOK
  <2> HIDE DEF SaysThen
  <2>3. SaysThen(ui')
    BY <1>1, <2>1, <2>2
  <2>4. ASSUME NEW t \in Threads, th'[t].at = "store" PROVE SaysThen(th'[t].draft)
    <3>1. th'[t] = th[t]
      BY <1>3, <1>5, <2>4
    <3> QED
      BY <2>1, <2>2, <2>4, <3>1
  <2> QED
    BY <2>3, <2>4 DEF ScreensOK, SaysOK, SaysThen
<1>12. DeviceOK' /\ StagedOK'
  <2>1. ~batch.ticket
    <3>1. ThreadAt("batch", batch, "new")
      BY <1>1, <1>2, Here
    <3> QED
      BY <3>1 DEF ThreadAt
  <2>2. ~batch'.ticket
    BY <1>3, FreshThread
  <2> QED
    BY <1>1, <2>1, <2>2 DEF QueueInv, DeviceOK, StagedOK
<1>13. AskedOK'
  BY <1>1 DEF QueueInv, AskedOK, Asked
<1> QED
  BY <1>4, <1>6, <1>8, <1>10, <1>11, <1>12, <1>13 DEF QueueInv

\* What the queue depends on of a thread's variables.
Same(l, m) ==
  /\ l.at = m.at /\ l.next = m.next /\ l.draft = m.draft /\ l.block = m.block
  /\ l.item = m.item /\ l.pin = m.pin /\ l.wire = m.wire /\ l.ticket = m.ticket
  /\ l.wanted = m.wanted

\* The screen stays, and no thread moves but one that starts afresh.
LEMMA QuietQueue ==
  ASSUME PinInv, QueueInv,
         \A t \in Threads : \/ Same(th'[t], th[t])
                            \/ t # "batch" /\ th'[t] \in {Fresh("idle"), Fresh("begin")},
         UNCHANGED <<ui, todo, policy>>, Asked => Asked',
         device'.published = device.published, DeviceOK', StagedOK', AskedOK'
  PROVE  QueueInv'
<1> DEFINE Quiet(t) == Same(th'[t], th[t])
           Starts(t) == t # "batch" /\ th'[t] \in {Fresh("idle"), Fresh("begin")}
<1>1. \A t \in Threads : Quiet(t) \/ Starts(t)
  OBVIOUS
<1>2. "batch" \in Threads /\ "main" \in Threads /\ batch = th["batch"] /\ batch' = th'["batch"]
  BY DEF Threads, batch
<1>3. Same(batch', batch)
  BY <1>1, <1>2
<1>4. Pos(batch)' = Pos(batch)
  BY <1>3 DEF Same, Pos
<1>5. ASSUME NEW t \in Threads, Starts(t)
      PROVE  Pos(th'[t]) \in {"idle", "begin"} /\ th'[t].at # "store"
             /\ ThreadAt(t, th'[t], Pos(th'[t]))
  BY <1>5, FreshThread
<1>6. ThreadsOK'
  <2> SUFFICES ASSUME NEW t \in Threads PROVE ThreadAt(t, th[t], Pos(th[t]))'
    BY DEF ThreadsOK
  <2>1. ThreadAt(t, th'[t], Pos(th'[t]))
    <3>1. CASE Quiet(t)
      <4>1. Pos(th'[t]) = Pos(th[t])
        BY <3>1 DEF Same, Pos
      <4> QED
        BY <3>1, <4>1, Here DEF Same, ThreadAt
    <3> QED
      BY <1>1, <1>5, <3>1
  <2> QED
    BY <2>1 DEF ThreadAt, Pos
<1>7. StoresOK'
  BY <1>1, <1>5 DEF QueueInv, StoresOK, Same
<1>8. StartedOnce'
  <2>1. Pos(th["main"])' = "launch" => Pos(th["main"]) = "launch"
    BY <1>1, <1>2, <1>5 DEF Same, Pos
  <2> QED
    BY <1>4, <2>1 DEF QueueInv, StartedOnce
<1>9. \A i : Pending(i)' = Pending(i)
  BY <1>3, <1>4 DEF Pending, UnderwayAt, Same
<1>10. UploadsOK'
  BY <1>3, <1>4, <1>9 DEF QueueInv, UploadsOK, UploadOK, Same
<1>11. ScreensOK'
  <2>1. \A t \in Threads : th'[t].at = "store" => th[t].at = "store" /\ th'[t].draft = th[t].draft
    BY <1>1, <1>5 DEF Same
  <2> QED
    BY <1>9, <2>1 DEF QueueInv, ScreensOK, SaysOK, Says
<1> QED
  BY <1>6, <1>7, <1>8, <1>10, <1>11 DEF QueueInv

\* A download starts, an answer reaches its coroutine, a dialog is answered.
LEMMA AnswerQueue ==
  ASSUME PinInv, QueueInv,
         \/ LaunchDownload \/ CompleteTrust
         \/ \E a \in {"skip", "replace", "keep", "cancel"} : ResolveConflict(a)
  PROVE  QueueInv'
<1>1. /\ UNCHANGED <<ui, todo, policy, device, faults, replaced>>
      /\ \/ UNCHANGED <<conflictDecision, chosen>>
         \/ /\ conflictDecision' \in {"skip", "replace", "keep", "cancel"}
            /\ chosen' = (chosen \/ conflictDecision' = "replace")
  BY DEF LaunchDownload, CompleteTrust, ResolveConflict, screen, queue, decisions, history
<1>2. AskedOK' /\ (Asked => Asked')
  BY <1>1 DEF QueueInv, AskedOK, Asked
<1>3. \A t \in Threads : \/ Same(th'[t], th[t])
                         \/ t # "batch" /\ th'[t] \in {Fresh("idle"), Fresh("begin")}
  <2> SUFFICES ASSUME NEW t \in Threads
               PROVE  \/ Same(th'[t], th[t])
                      \/ t # "batch" /\ th'[t] \in {Fresh("idle"), Fresh("begin")}
    OBVIOUS
  <2>1. th \in [Threads -> Local] /\ th[t] \in Local
    BY Here
  <2>2. CASE LaunchDownload
    BY <2>1, <2>2 DEF LaunchDownload, Same
  <2>3. CASE CompleteTrust
    <3>1. \/ t = "main" /\ th'[t] = Fresh("idle")
          \/ th'[t] = [th[t] EXCEPT !.answer = th["main"].at]
          \/ th'[t] = th[t]
      BY <2>3 DEF CompleteTrust
    <3> QED
      BY <2>1, <3>1 DEF Same, Local
  <2>4. CASE \E a \in {"skip", "replace", "keep", "cancel"} : ResolveConflict(a)
    BY <2>4 DEF ResolveConflict, Same
  <2> QED
    BY <2>2, <2>3, <2>4
<1>4. Same(batch', batch)
  BY <1>3 DEF batch, Threads
<1>5. DeviceOK' /\ StagedOK'
  BY <1>1, <1>4 DEF QueueInv, DeviceOK, StagedOK, Same
<1> QED
  BY <1>1, <1>2, <1>3, <1>5, QuietQueue

LEMMA PlayerQueue ==
  ASSUME PinInv, QueueInv, Player
  PROVE  QueueInv'
<1>1. UNCHANGED <<ui, th, todo, policy, conflictDecision, faults, chosen, replaced>>
  BY DEF Player, HostKeyChanges, ForeignWrite, screen, queue, decisions, history
<1>2. AskedOK' /\ (Asked => Asked')
  BY <1>1 DEF QueueInv, AskedOK, Asked
<1>3. \A t \in Threads : Same(th'[t], th[t])
  BY <1>1 DEF Same
<1>4. device \in [key : Keys, disk : [Paths -> Uploads \cup {"foreign", None}],
                  staged : Nat, published : [Uploads -> Nat]]
  BY DEF QueueInv, DeviceOK
<1>5. /\ DeviceOK' /\ device'.staged = device.staged /\ device'.published = device.published
      /\ device'.key \in Keys /\ device.key <= device'.key
  <2>1. CASE HostKeyChanges
    <3>1. device' = [device EXCEPT !.key = device.key + 1] /\ device.key + 1 \in Keys
      BY <1>4, <2>1, KeyAssumption DEF HostKeyChanges, Keys
    <3> QED
      BY <1>4, <3>1 DEF DeviceOK, Keys
  <2>2. ASSUME NEW p \in Paths, ForeignWrite(p)
        PROVE  /\ DeviceOK' /\ device'.staged = device.staged
               /\ device'.published = device.published /\ device'.key = device.key
    BY <1>4, <2>2 DEF ForeignWrite, DeviceOK
  <2> QED
    BY <1>4, <2>1, <2>2 DEF Player, Keys
<1>6. batch' = batch
  BY <1>1 DEF batch
<1>7. StagedOK'
  BY <1>1, <1>4, <1>5, <1>6 DEF QueueInv, StagedOK, Keys
<1> QED
  BY <1>1, <1>2, <1>3, <1>5, <1>7, QuietQueue

LEMMA QueueInvInit == Init => QueueInv
<1> SUFFICES ASSUME Init PROVE QueueInv
  OBVIOUS
<1>1. /\ \A t \in Threads : \E where \in {"idle", "new"} :
           th[t] = Fresh(where) /\ (where = "idle" <=> t = "main")
      /\ "batch" \in Threads /\ "main" \in Threads
  BY DEF Init, Threads
<1>2. \A where \in {"idle", "new"} :
        /\ Fresh(where).at = where /\ Pos(Fresh(where)) = where
        /\ Fresh(where).block = None /\ Fresh(where).item = None
        /\ Fresh(where).ticket = FALSE /\ Fresh(where).wire = None
  BY DEF Fresh, Pos
<1>3. batch = Fresh("new") /\ th["main"] = Fresh("idle")
  BY <1>1 DEF batch
<1>4. ThreadsOK
  BY <1>1, <1>2, NoneAssumption DEF ThreadsOK, ThreadAt, BlockAt, BlocksOf, Policies
<1>5. StoresOK
  BY <1>1, <1>2 DEF StoresOK
<1>6. StartedOnce
  BY <1>2, <1>3 DEF StartedOnce
<1>7. UploadsOK
  BY <1>2, <1>3, NoneAssumption DEF Init, UploadsOK, UploadOK, Transfers
<1>8. ScreensOK
  BY <1>1, <1>2, NoneAssumption DEF Init, ScreensOK, SaysOK, Says, Transfers, States
<1>9. DeviceOK
  BY KeyAssumption DEF Init, DeviceOK, Keys
<1>10. StagedOK
  BY <1>2, <1>3 DEF Init, StagedOK
<1>11. AskedOK
  BY NoneAssumption DEF Init, AskedOK, Policies
<1> QED
  BY <1>4, <1>5, <1>6, <1>7, <1>8, <1>9, <1>10, <1>11 DEF QueueInv

-------------------------------------------------------------------------------
\* What the screen says of an upload and what was asked before a replacement agree
\* with what the player did, for every batch and any interleaving.
THEOREM QueueInvariant == Spec => []QueueInv
<1>1. Init => QueueInv
  BY QueueInvInit
<1>2. PinInv /\ QueueInv /\ [Next]_vars => QueueInv'
  <2> SUFFICES ASSUME PinInv, QueueInv, [Next]_vars PROVE QueueInv'
    OBVIOUS
  <2>1. CASE Taps
    <3>1. ASSUME NEW p \in Policies, ConfirmUploads(p) PROVE QueueInv'
      BY <3>1, ConfirmQueue
    <3> QED
      BY <2>1, <3>1, TapQueue, LaunchQueue, AnswerQueue, CompanionQueue DEF Taps
  <2>2. CASE Batch
    BY <2>2, NextQueue, BatchQueue, ConflictQueue DEF Batch
  <2>3. CASE BeginDownload \/ Fetched \/ Listed
    BY <2>3, CompanionQueue
  <2>4. ASSUME NEW t \in Threads, Coroutine(t) PROVE QueueInv'
    BY <2>4, StoreQueue, TrustedQueue, CallQueue, PrepareQueue, CommitQueue, CancelQueue,
       ApprovalQueue, EndQueue, OverQueue DEF Coroutine
  <2>5. CASE Player
    BY <2>5, PlayerQueue
  <2>6. CASE UNCHANGED vars
    <3>1. Asked' = Asked /\ batch' = batch /\ \A i : Pending(i)' = Pending(i)
      BY <2>6 DEF vars, Asked, batch, Pending, Pos, UnderwayAt
    <3>2. \A t \in Threads : Same(th'[t], th[t])
      BY <2>6 DEF vars, Same
    <3>3. DeviceOK' /\ StagedOK' /\ AskedOK'
      BY <2>6, <3>1 DEF vars, QueueInv, DeviceOK, StagedOK, AskedOK
    <3> QED
      BY <2>6, <3>1, <3>2, <3>3, QuietQueue DEF vars
  <2> QED
    BY <2>1, <2>2, <2>3, <2>4, <2>5, <2>6 DEF Next
<1> QED
  BY <1>1, <1>2, PinInvariant, PTL DEF Spec

\* The list never shows a finished upload that is not on the player, nor a skipped or
\* cancelled one that is, whatever stale copies of the list are stored.
THEOREM ResultsAreTrue == Spec => []ShownResultIsTrue
<1>1. QueueInv => ShownResultIsTrue
  BY DEF QueueInv, ScreensOK, SaysOK, Says, ShownResultIsTrue
<1> QED
  BY <1>1, QueueInvariant, PTL

\* An upload is resumed after any number of approvals without being published twice.
THEOREM PublishedAtMostOnce == Spec => []PublishedOnce
<1>1. QueueInv => PublishedOnce
  BY DEF QueueInv, UploadsOK, UploadOK, PublishedOnce
<1> QED
  BY <1>1, QueueInvariant, PTL

\* Nothing is replaced unless the batch or a dialog said so.
THEOREM ReplacedOnlyAsked == Spec => []NeverReplacedUnasked
<1>1. QueueInv => NeverReplacedUnasked
  BY DEF QueueInv, AskedOK, Asked, NeverReplacedUnasked
<1> QED
  BY <1>1, QueueInvariant, PTL

\* Every ticket left on the card has a broken connection or a changed key behind it.
THEOREM LeaksExplained == Spec => []LeaksHaveACause
<1>1. PinInv /\ QueueInv => LeaksHaveACause
  <2> SUFFICES ASSUME PinInv, QueueInv PROVE LeaksHaveACause
    OBVIOUS
  <2>1. /\ "batch" \in Threads /\ batch = th["batch"] /\ device.key \in Nat /\ faults \in Nat
        /\ \A t \in Threads : th[t].ticket => t = "batch"
        /\ device.staged \in Nat
    BY Here DEF batch, Threads, ThreadAt, Keys, QueueInv, StagedOK
  <2>2. CASE batch.ticket
    <3>1. {t \in Threads : th[t].ticket} = {"batch"}
      BY <2>1, <2>2
    <3>2. Cardinality({t \in Threads : th[t].ticket}) = 1
      BY <3>1, FS_Singleton
    <3>3. device.staged <= faults + batch.pin /\ batch.pin <= device.key /\ batch.pin \in Nat
      BY <2>2 DEF QueueInv, StagedOK, Keys
    <3> QED
      BY <2>1, <3>2, <3>3 DEF LeaksHaveACause
  <2>3. CASE ~batch.ticket
    <3>1. {t \in Threads : th[t].ticket} = {}
      BY <2>1, <2>3
    <3>2. Cardinality({t \in Threads : th[t].ticket}) = 0
      BY <3>1, FS_EmptySet
    <3>3. device.staged <= faults + device.key - 1
      BY <2>3 DEF QueueInv, StagedOK
    <3> QED
      BY <2>1, <3>2, <3>3 DEF LeaksHaveACause
  <2> QED
    BY <2>2, <2>3
<1> QED
  BY <1>1, PinInvariant, QueueInvariant, PTL

================================================================================
