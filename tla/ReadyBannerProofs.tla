-------------------------- MODULE ReadyBannerProofs --------------------------
(***************************************************************************)
(* Proofs about the ready banner, for any number of tokens, addresses and   *)
(* upsets: what the first banner shows is right, and an `up` makes the      *)
(* addresses before it unreachable.                                         *)
(***************************************************************************)
EXTENDS ReadyBanner, TLAPS

\* The token of .env was issued before everything else.
Numbers == TypeOK /\ (FixedToken => issued >= 1)

\* Until something upsets the stack, what is on the volume and what ready has read of it
\* is nobody's but the running daemons'.
Undisturbed ==
  upset = 0 =>
    /\ token \in {0, password} /\ log \in {0, url}
    /\ got.token \in {0, password} /\ (got.live => server = "serving")
    /\ FirstBannerIsRight

\* The log names no address from before the last `up`.
LogIsRecent == log = 0 \/ log > since

Inv == Numbers /\ Undisturbed /\ LogIsRecent

-----------------------------------------------------------------------------

LEMMA Arithmetic ==
  ASSUME TypeOK
  PROVE  /\ issued \in Nat /\ issued <= Issues /\ Issues \in Nat
         /\ \A n \in {password, url, token, log, since} : n \in Nat /\ n <= issued
BY ConstantsAssumption DEF TypeOK, Issued

LEMMA InitInv == Init => Inv
<1>. SUFFICES ASSUME Init PROVE Inv
  OBVIOUS
<1>1. issued \in Issued /\ since = issued /\ 0 \in 0..issued /\ (FixedToken => issued >= 1)
  BY ConstantsAssumption DEF Init, Issued
<1>2. Nothing \in Banner /\ Nothing.token = 0 /\ Nothing.live = FALSE
  BY ConstantsAssumption DEF Nothing, Banner, Issued
<1>3. TypeOK
  <2>1. {password, url, token, log, since} \subseteq 0..issued
    BY <1>1 DEF Init, Issued
  <2>2. upset \in 0..Disturbances
    BY ConstantsAssumption DEF Init
  <2>3. linked \in BOOLEAN /\ ordered \in BOOLEAN
    BY DEF Init
  <2>4. got \in Banner /\ banner \subseteq Banner
    BY <1>2 DEF Init
  <2>. QED BY <1>1, <2>1, <2>2, <2>3, <2>4 DEF Init, TypeOK
<1>. QED BY <1>1, <1>2, <1>3
         DEF Init, Inv, Numbers, Undisturbed, FirstBannerIsRight, LogIsRecent

\* The server writes the token it wants, and no other is on the volume until then.
LEMMA ServerStep ==
  ASSUME Inv, StartServer \/ PublishToken \/ Serve
  PROVE  Inv'
<1>. USE DEF service, volume, history
<1>1. Numbers'
  <2>1. CASE StartServer \/ Serve
    BY <2>1 DEF StartServer, Serve, Inv, Numbers, TypeOK
  <2>2. CASE PublishToken
    <3>1. /\ Fresh \in 1..issued' /\ issued' \in Issued /\ issued <= issued' /\ issued \in Nat
          /\ (FixedToken => issued' >= 1)
      BY <2>2, Arithmetic, ConstantsAssumption DEF PublishToken, Fresh, Inv, Numbers, Issued
    <3>2. {password, url, token, log, since}' \subseteq 0..issued'
      BY <2>2, <3>1, Arithmetic DEF PublishToken, Inv, Numbers
    <3>3. password' # 0 /\ server' = "booting" /\ UNCHANGED <<tunnel, url, linked, ready, got, banner, ordered, upset>>
      BY <2>2, <3>1 DEF PublishToken
    <3>. QED BY <3>1, <3>2, <3>3 DEF Inv, Numbers, TypeOK
  <2>. QED BY <2>1, <2>2
<1>2. Undisturbed'
  <2>1. CASE StartServer \/ Serve
    BY <2>1 DEF StartServer, Serve, Inv, Numbers, TypeOK, Undisturbed, FirstBannerIsRight
  <2>2. CASE PublishToken
    BY <2>2 DEF PublishToken, Inv, Numbers, TypeOK, Undisturbed, FirstBannerIsRight
  <2>. QED BY <2>1, <2>2
<1>3. LogIsRecent'
  BY DEF StartServer, PublishToken, Serve, Inv, LogIsRecent
<1>. QED BY <1>1, <1>2, <1>3 DEF Inv

\* A new address is above every number so far, and logged only while the log is its own.
LEMMA TunnelStep ==
  ASSUME Inv, StartTunnel \/ Connect
  PROVE  Inv'
<1>. USE DEF service, volume, history
<1>1. CASE StartTunnel
  BY <1>1 DEF StartTunnel, Inv, Numbers, TypeOK, Undisturbed, FirstBannerIsRight, LogIsRecent
<1>2. CASE Connect
  <2>1. /\ issued' = issued + 1 /\ issued' \in Issued /\ url' = issued + 1 /\ log' \in {log, issued + 1}
        /\ issued \in Nat /\ url' # 0 /\ url = 0
    BY <1>2, Arithmetic DEF Connect, Inv, Numbers, TypeOK, Issued
  <2>2. {password, url, token, log, since}' \subseteq 0..issued'
    <3>1. UNCHANGED <<password, token, since>>
      BY <1>2 DEF Connect
    <3>2. {password, token, log, since} \subseteq 0..issued
      BY DEF Inv, Numbers, TypeOK
    <3>3. 0..issued \subseteq 0..issued' /\ issued + 1 \in 0..issued'
      BY <2>1
    <3>. QED BY <2>1, <3>1, <3>2, <3>3
  <2>3. Numbers'
    BY <1>2, <2>1, <2>2 DEF Connect, Inv, Numbers, TypeOK
  <2>4. Undisturbed'
    BY <1>2, <2>1 DEF Connect, Inv, Undisturbed, FirstBannerIsRight
  <2>5. LogIsRecent'
    BY <1>2, <2>1, Arithmetic DEF Connect, Inv, Numbers, LogIsRecent
  <2>. QED BY <2>3, <2>4, <2>5 DEF Inv
<1>. QED BY <1>1, <1>2

\* ready copies what is there.
LEMMA ReadyStep ==
  ASSUME Inv, StartReady \/ WaitToken \/ WaitHealth \/ WaitUrl
  PROVE  Inv'
<1>0. UNCHANGED <<server, password, tunnel, url, linked, token, log, ordered, issued, since, upset>>
  BY DEF StartReady, WaitToken, WaitHealth, WaitUrl, daemons, volume, history
<1>1. token \in Issued /\ log \in Issued
  BY Arithmetic DEF Inv, Numbers, Issued
<1>2. got' \in Banner /\ banner' \subseteq Banner /\ (banner' # {} <=> ready' = "idle")
      /\ ready' \in {"down", "token", "health", "url", "idle"}
  <2>1. got \in Banner /\ banner \subseteq Banner /\ (banner # {} <=> ready = "idle")
    BY DEF Inv, Numbers, TypeOK
  <2>2. CASE StartReady
    BY <2>1, <2>2, ConstantsAssumption DEF StartReady, Banner, Nothing, Issued
  <2>3. CASE WaitToken \/ WaitHealth
    BY <1>1, <2>1, <2>3 DEF WaitToken, WaitHealth, Banner
  <2>4. CASE WaitUrl
    <3>1. [got EXCEPT !.url = log] \in Banner
      BY <1>1, <2>1 DEF Banner
    <3>. QED BY <2>1, <2>4, <3>1 DEF WaitUrl
  <2>. QED BY <2>2, <2>3, <2>4
<1>3. Numbers'
  BY <1>0, <1>2 DEF Inv, Numbers, TypeOK
<1>4. Undisturbed'
  <2>. SUFFICES ASSUME upset = 0 PROVE Undisturbed'
    BY <1>0 DEF Undisturbed
  <2>1. /\ token \in {0, password} /\ log \in {0, url}
        /\ got.token \in {0, password} /\ (got.live => server = "serving")
        /\ FirstBannerIsRight
    BY DEF Inv, Undisturbed
  <2>2. got \in Banner
    BY DEF Inv, Numbers, TypeOK
  <2>3. got'.token \in {0, password} /\ (got'.live => server = "serving")
    BY <2>1, <2>2 DEF StartReady, WaitToken, WaitHealth, WaitUrl, Banner, Nothing
  <2>4. FirstBannerIsRight'
    <3>1. CASE WaitUrl
      <4>1. banner' = {[got EXCEPT !.url = log]}
        BY <3>1 DEF WaitUrl
      <4>2. /\ [got EXCEPT !.url = log].token = got.token
            /\ [got EXCEPT !.url = log].url = log
            /\ [got EXCEPT !.url = log].live = got.live
        BY <2>2 DEF Banner
      <4>. QED BY <1>0, <2>1, <4>1, <4>2 DEF FirstBannerIsRight
    <3>2. CASE StartReady \/ WaitToken \/ WaitHealth
      BY <1>0, <2>1, <3>2 DEF StartReady, WaitToken, WaitHealth, FirstBannerIsRight
    <3>. QED BY <3>1, <3>2
  <2>. QED BY <1>0, <2>1, <2>3, <2>4 DEF Undisturbed
<1>5. LogIsRecent'
  BY <1>0 DEF Inv, LogIsRecent
<1>. QED BY <1>3, <1>4, <1>5 DEF Inv

LEMMA StoppedTypes ==
  ASSUME Inv, NEW s, Stopped(s)
  PROVE  /\ server' \in {"down", "starting", "booting", "serving"}
         /\ tunnel' \in {"down", "connecting", "up"}
         /\ ready' \in {"down", "token", "health", "url", "idle"}
         /\ password' \in {0, password} /\ url' \in {0, url}
         /\ got' \in Banner /\ banner' \subseteq Banner
         /\ (password' # 0) <=> (server' \in {"booting", "serving"})
         /\ (url' # 0) <=> (tunnel' = "up")
         /\ (banner' # {}) <=> (ready' = "idle")
<1>1. Nothing \in Banner
  BY ConstantsAssumption DEF Nothing, Banner, Issued
<1>. QED BY <1>1 DEF Inv, Numbers, TypeOK, Stopped

\* Whatever stops, no number changes, and only an `up` removes the log.
LEMMA UpsetStep ==
  ASSUME Inv, Crash \/ Reboot \/ Update
  PROVE  Inv'
<1>1. /\ \E s : Stopped(s)
      /\ upset' \in 1..Disturbances /\ issued' = issued /\ token' = token
      /\ linked' \in BOOLEAN /\ ordered' \in BOOLEAN
      /\ \/ log' = log /\ since' = since
         \/ log' = 0 /\ since' = issued
  <2>1. upset \in 0..Disturbances /\ linked \in BOOLEAN /\ Disturbances \in Nat
    BY ConstantsAssumption DEF Inv, Numbers, TypeOK
  <2>2. upset' = upset + 1 /\ upset < Disturbances
    BY DEF Crash, Reboot, Update, Upset
  <2>3. upset' \in 1..Disturbances
    BY <2>1, <2>2
  <2>4. linked' \in BOOLEAN /\ ordered' \in BOOLEAN
    BY <2>1 DEF Crash, Reboot, Update
  <2>. QED BY <2>3, <2>4 DEF Crash, Reboot, Update, volume
<1>2. {password, url, token, log, since}' \subseteq 0..issued'
  BY <1>1, StoppedTypes, Arithmetic DEF Inv, Numbers
<1>3. TypeOK'
  BY <1>1, <1>2, StoppedTypes DEF Inv, Numbers, TypeOK
<1>4. Numbers'
  BY <1>1, <1>3 DEF Inv, Numbers
<1>5. upset' # 0
  BY <1>1
<1>6. Undisturbed'
  BY <1>5 DEF Undisturbed
<1>7. LogIsRecent'
  BY <1>1 DEF Inv, LogIsRecent
<1>. QED BY <1>4, <1>6, <1>7 DEF Inv

LEMMA NextInv == Inv /\ [Next]_vars => Inv'
<1>. SUFFICES ASSUME Inv, [Next]_vars PROVE Inv'
  OBVIOUS
<1>1. CASE UNCHANGED vars
  BY <1>1 DEF vars, daemons, volume, service, history, Inv, Numbers, TypeOK, Undisturbed,
              FirstBannerIsRight, LogIsRecent
<1>. QED BY <1>1, ServerStep, TunnelStep, ReadyStep, UpsetStep DEF Next

LEMMA Inductive == Spec => []Inv
BY InitInv, NextInv, PTL DEF Spec

-----------------------------------------------------------------------------
(* The theorems. *)

\* Tokens, addresses and the containers' states keep to their types and go together.
THEOREM TypeCorrect == Spec => []TypeOK
<1>1. Inv => TypeOK
  BY DEF Inv, Numbers
<1>. QED BY <1>1, Inductive, PTL

\* The first banner of a fresh volume names the running server's token and the running
\* tunnel's address.
THEOREM FirstBanner == Spec => []FirstBannerIsRight
<1>1. Inv => FirstBannerIsRight
  BY DEF Inv, Undisturbed, FirstBannerIsRight
<1>. QED BY <1>1, Inductive, PTL

\* After an `up`, announce never prints an address from before it.
THEOREM OldAddresses == Spec => OldAddressesAreGone
<1>1. Inv /\ [Next]_vars => [Prints => \A b \in banner' : b.url = 0 \/ b.url > since]_vars
  <2>. SUFFICES ASSUME Inv, Next, Prints
                PROVE  \A b \in banner' : b.url = 0 \/ b.url > since
    OBVIOUS
  <2>1. WaitUrl
    <3>1. ready = "url" /\ ready' = "idle"
      BY DEF Prints
    <3>2. ~(StartServer \/ PublishToken \/ Serve \/ StartTunnel \/ Connect)
      BY <3>1 DEF StartServer, PublishToken, Serve, StartTunnel, Connect, service
    <3>3. ~(StartReady \/ WaitToken \/ WaitHealth)
      BY <3>1 DEF StartReady, WaitToken, WaitHealth
    <3>4. ~(Crash \/ Reboot \/ Update)
      BY <3>1 DEF Crash, Reboot, Update, Stopped
    <3>. QED BY <3>2, <3>3, <3>4 DEF Next
  <2>2. banner' = {[got EXCEPT !.url = log]} /\ got \in Banner
    BY <2>1 DEF WaitUrl, Inv, Numbers, TypeOK
  <2>3. [got EXCEPT !.url = log].url = log
    BY <2>2 DEF Banner
  <2>. QED BY <2>2, <2>3 DEF Inv, LogIsRecent
<1>. QED BY <1>1, Inductive, PTL DEF Spec, OldAddressesAreGone

=============================================================================
