----------------------------- MODULE ReadyBanner -----------------------------
(***************************************************************************)
(* The "ready" banner: docker-compose.yml and core/announce.py.             *)
(* The server generates a token and writes it to a shared volume, the       *)
(* tunnel logs its address there, and the ready service polls both and the  *)
(* server's health, prints the banner once and idles.  The volume outlives  *)
(* the containers, which start, crash and restart independently, so what    *)
(* ready reads may be another run's.                                        *)
(* Tokens and addresses are numbered as they are issued; 0 is none.         *)
(*                                                                         *)
(* From compose itself, external: containers are started in the order of    *)
(* depends_on by `up` only; `up` runs the exited init-shared again and      *)
(* leaves a container alone whose image and settings did not change; the    *)
(* restart policy starts containers again in any order and without          *)
(* init-shared.                                                             *)
(***************************************************************************)
EXTENDS Naturals

CONSTANTS
  FixedToken,   \* is LOCAL_BACKEND_TOKEN set in .env?
  Upsets,       \* what may happen to the stack: a subset of AllUpsets
  Issues,       \* bound on the tokens and addresses issued
  Disturbances  \* bound on how often the stack is upset

Container == {"server", "tunnel", "ready"}
AllUpsets == {"crash", "reboot", "update"}

ASSUME ConstantsAssumption ==
  /\ FixedToken \in BOOLEAN /\ Upsets \subseteq AllUpsets
  /\ Issues \in Nat \ {0} /\ Disturbances \in Nat

VARIABLES
  server,   \* "down", "starting", "booting" (its token is written) or "serving"
  password, \* the token the running server wants
  tunnel,   \* "down", "connecting" or "up"
  url,      \* the address the running tunnel answers to
  linked,   \* is the log the tunnel has open the one /shared/cf.log names?
  token,    \* /shared/token
  log,      \* the last address in /shared/cf.log
  ready,    \* what announce waits for: "down", "token", "health", "url", or "idle"
  got,      \* its locals
  banner,   \* what the running ready printed: {} or a singleton
  ordered,  \* history: was everything running now started by `up`?
  issued,   \* how many tokens and addresses there have been
  since,    \* history: how many of them before the last `up`
  upset     \* how often the stack was upset

daemons == <<server, password, tunnel, url, linked>>
volume  == <<token, log>>
service == <<ready, got, banner>>
history == <<ordered, issued, since, upset>>
vars    == <<daemons, volume, service, history>>

Issued == 0..Issues
Banner == [token : Issued, live : BOOLEAN, url : Issued]
Nothing == [token |-> 0, live |-> FALSE, url |-> 0]

\* A fresh volume, and the first `up` past init-shared.
Init ==
  /\ server = "down" /\ password = 0
  /\ tunnel = "down" /\ url = 0 /\ linked = FALSE
  /\ token = 0 /\ log = 0
  /\ ready = "down" /\ got = Nothing /\ banner = {}
  /\ ordered = TRUE /\ issued = IF FixedToken THEN 1 ELSE 0
  /\ since = issued /\ upset = 0

-----------------------------------------------------------------------------
(* The server's container: sh, then Python.                                *)

StartServer ==
  /\ server = "down" /\ server' = "starting"
  /\ UNCHANGED <<password, tunnel, url, linked, volume, service, history>>

\* The token of .env is the first one issued.
Fresh == IF FixedToken THEN 1 ELSE issued + 1

\* The script generates the token twice, once for itself and once for the file.
PublishTokenTwice ==
  /\ server = "starting" /\ Fresh < Issues
  /\ password' = Fresh /\ token' = IF FixedToken THEN 1 ELSE Fresh + 1
  /\ issued' = IF FixedToken THEN issued ELSE issued + 2
  /\ server' = "booting"
  /\ UNCHANGED <<tunnel, url, linked, log, service, ordered, since, upset>>

PublishToken ==
  /\ server = "starting" /\ Fresh <= Issues
  /\ password' = Fresh /\ token' = Fresh
  /\ issued' = IF FixedToken THEN issued ELSE Fresh
  /\ server' = "booting"
  /\ UNCHANGED <<tunnel, url, linked, log, service, ordered, since, upset>>

Serve ==
  /\ server = "booting" /\ server' = "serving"
  /\ UNCHANGED <<password, tunnel, url, linked, volume, service, history>>

-----------------------------------------------------------------------------
(* The tunnel: cloudflared opens its log by name and appends the address it *)
(* is given.                                                                *)

StartTunnel ==
  /\ tunnel = "down" /\ (ordered => server # "down")
  /\ tunnel' = "connecting" /\ linked' = TRUE
  /\ UNCHANGED <<server, password, url, volume, service, history>>

Connect ==
  /\ tunnel = "connecting" /\ issued < Issues
  /\ tunnel' = "up" /\ url' = issued + 1 /\ issued' = issued + 1
  /\ log' = IF linked THEN issued + 1 ELSE log
  /\ UNCHANGED <<server, password, linked, token, service, ordered, since, upset>>

-----------------------------------------------------------------------------
(* The ready service: announce.main.  A wait ends with the first poll that  *)
(* finds something, or on its deadline with nothing; a deadline may pass    *)
(* whenever there is nothing to find.                                       *)

StartReady ==
  /\ ready = "down" /\ (ordered => server # "down" /\ tunnel # "down")
  /\ ready' = "token" /\ got' = Nothing
  /\ UNCHANGED <<daemons, volume, banner, history>>

\* A server that never writes its token would leave the operator without a banner.
WaitTokenForever ==
  /\ ready = "token" /\ token # 0
  /\ ready' = "health" /\ got' = [got EXCEPT !.token = token]
  /\ UNCHANGED <<daemons, volume, banner, history>>

\* With the deadline passed, got.token is the 0 it reads.
WaitToken ==
  /\ ready = "token"
  /\ ready' = "health" /\ got' = [got EXCEPT !.token = token]
  /\ UNCHANGED <<daemons, volume, banner, history>>

WaitHealth ==
  /\ ready = "health"
  /\ ready' = "url" /\ got' = [got EXCEPT !.live = (server = "serving")]
  /\ UNCHANGED <<daemons, volume, banner, history>>

\* The last address of the log; the banner follows at once, and ready idles.
WaitUrl ==
  /\ ready = "url"
  /\ ready' = "idle" /\ banner' = {[got EXCEPT !.url = log]}
  /\ UNCHANGED <<daemons, volume, got, history>>

-----------------------------------------------------------------------------
(* What becomes of the stack.                                              *)

\* Their processes are gone, and with ready's its banner.
Stopped(s) ==
  /\ server' = IF "server" \in s THEN "down" ELSE server
  /\ password' = IF "server" \in s THEN 0 ELSE password
  /\ tunnel' = IF "tunnel" \in s THEN "down" ELSE tunnel
  /\ url' = IF "tunnel" \in s THEN 0 ELSE url
  /\ ready' = IF "ready" \in s THEN "down" ELSE ready
  /\ got' = IF "ready" \in s THEN Nothing ELSE got
  /\ banner' = IF "ready" \in s THEN {} ELSE banner

Running ==
  (IF server # "down" THEN {"server"} ELSE {}) \cup
  (IF tunnel # "down" THEN {"tunnel"} ELSE {}) \cup
  (IF ready # "down" THEN {"ready"} ELSE {})

Upset(how) ==
  /\ how \in Upsets /\ upset < Disturbances /\ upset' = upset + 1

\* A container exits and the restart policy will start it again.  The server also exits
\* by itself while booting, when its settings are wrong.
Crash ==
  /\ Upset("crash")
  /\ \E c \in Running : Stopped({c})
  /\ linked' = linked /\ ordered' = FALSE
  /\ UNCHANGED <<volume, issued, since>>

\* The host restarts: the restart policy starts everything, init-shared excepted.
Reboot ==
  /\ Upset("reboot") /\ Running # {}
  /\ Stopped(Container)
  /\ linked' = linked /\ ordered' = FALSE
  /\ UNCHANGED <<volume, issued, since>>

\* Nothing changed; the door's image, which ready shares; the tunnel's; or .env.
Recreated == {{}, {"server", "ready"}, {"tunnel"}, Container}

UpdateKeepsLog ==
  /\ Upset("update") /\ Running = Container
  /\ \E s \in Recreated : Stopped(s)
  /\ linked' = linked
  /\ log' = log
  /\ ordered' = TRUE /\ since' = issued
  /\ UNCHANGED <<token, issued>>

\* `docker compose up -d` over a running stack: init-shared removes the log, and the
\* containers that changed are stopped and started anew.  (`down` and `up` is the same
\* with all of them.)
Update ==
  /\ Upset("update") /\ Running = Container
  /\ \E s \in Recreated : Stopped(s)
  /\ linked' = FALSE
  /\ log' = 0
  /\ ordered' = TRUE /\ since' = issued
  /\ UNCHANGED <<token, issued>>

Next ==
  \/ StartServer \/ PublishToken \/ Serve
  \/ StartTunnel \/ Connect
  \/ StartReady \/ WaitToken \/ WaitHealth \/ WaitUrl
  \/ Crash \/ Reboot \/ Update

Spec == Init /\ [][Next]_vars

\* Only ready's own deadlines are relied on: neither the server nor the tunnel need ever
\* come up.
LiveSpec ==
  Spec /\ WF_vars(WaitToken) /\ WF_vars(WaitHealth) /\ WF_vars(WaitUrl)

-----------------------------------------------------------------------------
\* Numbers are those issued, a running server has its token only once it is booting,
\* and only an idle ready has a banner.
TypeOK ==
  /\ server \in {"down", "starting", "booting", "serving"}
  /\ tunnel \in {"down", "connecting", "up"}
  /\ ready \in {"down", "token", "health", "url", "idle"}
  /\ {password, url, token, log, since} \subseteq 0..issued /\ issued \in Issued
  /\ linked \in BOOLEAN /\ ordered \in BOOLEAN /\ upset \in 0..Disturbances
  /\ got \in Banner /\ banner \subseteq Banner
  /\ (password # 0) <=> (server \in {"booting", "serving"})
  /\ (url # 0) <=> (tunnel = "up")
  /\ (banner # {}) <=> (ready = "idle")

Prints == ready = "url" /\ ready' = "idle"

\* On a fresh volume, until something upsets the stack, the banner is what the operator
\* is promised: what it shows is the running server's token and the running tunnel's
\* address, and "live" of a server that serves, however the three containers interleave.
FirstBannerIsRight ==
  upset = 0 => \A b \in banner :
    /\ b.token \in {0, password}
    /\ b.url \in {0, url}
    /\ b.live => server = "serving"

\* init-shared clears the log on every `up`: no banner printed after one shows an address
\* from before it, also when a tunnel that was not restarted still has the old log open.
OldAddressesAreGone ==
  [][Prints => \A b \in banner' : b.url = 0 \/ b.url > since]_vars

\* A banner comes whatever the rest of the stack does, unless ready itself stops: every
\* wait has its deadline.
BannerComes == (ready # "down") ~> (ready \in {"idle", "down"})
=============================================================================
