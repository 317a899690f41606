---------------------------- MODULE BootstrapFetch ----------------------------
(***************************************************************************)
(* How downloads find their servers under censorship (internal/provider:   *)
(* httpclient.go, dns_tofu.go, doh.go): the trust-on-first-use cache of    *)
(* addresses, then DNS-over-HTTPS, then the system resolver.               *)
(*                                                                         *)
(* Every download has a client of its own, which loads dns-tofu.json once  *)
(* and, whenever it changes an entry, rewrites the whole file from what it *)
(* holds.  A host has one address at a time; at Squatted addresses someone *)
(* else accepts connections (TLS then fails), at the others nobody does.   *)
(* An entry is 0 or [ip, old]; old: stored more than the TTL ago.          *)
(***************************************************************************)
EXTENDS Naturals, FiniteSets

CONSTANTS
    Hosts, Addresses,
    Clients,       \* downloads that may run at once
    From,          \* the host each is from
    Movers,        \* the hosts that move
    Squatted,      \* SUBSET Addresses
    Endpoints,     \* the DoH pool
    MaxAttempts    \* the attempts of each download, RetryMax

ASSUME DownloadsAssumption == MaxAttempts \in [Clients -> Nat \ {0}] /\ From \in [Clients -> Hosts]

VARIABLES
    origin,     \* where each host is
    tofu,       \* dns-tofu.json
    endpointUp, \* the endpoints that answer
    client,     \* the downloads
    quiet       \* from now on hosts stay, and everything answers

bfVars == <<origin, tofu, endpointUp, client, quiet>>

NoEntry == [ip |-> "none", old |-> FALSE]
Entry == [ip : Addresses, old : BOOLEAN] \cup {NoEntry}
NoClient == [at |-> "idle", host |-> "none", loaded |-> FALSE,
             map |-> [h \in Hosts |-> NoEntry], parked |-> {}, ip |-> "none", tries |-> 0]

(* Bounded by the attempts of a download and one entry per host.           *)
BootstrapTypeOK ==
    /\ origin \in [Hosts -> Addresses] /\ tofu \in [Hosts -> Entry]
    /\ endpointUp \subseteq Endpoints /\ quiet \in BOOLEAN
    /\ \A d \in Clients :
         /\ client[d].at \in {"idle", "lookup", "cached", "resolve", "dial", "tls", "failed"}
         /\ client[d].host \in Hosts \cup {"none"} /\ client[d].loaded \in BOOLEAN
         /\ client[d].map \in [Hosts -> Entry]
         /\ client[d].ip \in Addresses \cup {"none"} /\ client[d].tries \in 0..MaxAttempts[d]
         /\ client[d].parked \subseteq Endpoints

BootstrapInit ==
    /\ origin \in [Hosts -> Addresses]
    /\ tofu = [h \in Hosts |-> NoEntry] /\ endpointUp = Endpoints
    /\ client = [d \in Clients |-> NoClient] /\ quiet = FALSE

Is(d, place) == client[d].at = place
To(d, c) == client' = [client EXCEPT ![d] = c]

(* persistLocked: the whole map; a failed write goes unnoticed.            *)
Persist(m) == tofu' = m \/ (~quiet /\ UNCHANGED tofu)

StartDownload(d) ==
    /\ Is(d, "idle")
    /\ To(d, [NoClient EXCEPT !.at = "lookup", !.host = From[d], !.tries = 1])
    /\ UNCHANGED <<origin, tofu, endpointUp, quiet>>

(* Lookup: an entry past its TTL is removed.                               *)
NeverStale(e) == FALSE             \* variant: the TTL is not looked at
IsStale(e) == e.old
LookupTOFU(d) ==
    /\ Is(d, "lookup")
    /\ LET c == [client[d] EXCEPT !.loaded = TRUE,
                                  !.map = IF client[d].loaded THEN @ ELSE tofu]
           e == c.map[c.host]
           m == [c.map EXCEPT ![c.host] = NoEntry] IN
       IF e # NoEntry /\ ~IsStale(e)
         THEN To(d, [c EXCEPT !.at = "cached"]) /\ UNCHANGED tofu
         ELSE /\ To(d, [c EXCEPT !.at = "resolve", !.map = m])
              /\ IF e = NoEntry THEN UNCHANGED tofu ELSE Persist(m)
    /\ UNCHANGED <<origin, endpointUp, quiet>>

(* A dial reaches whoever accepts at the address; while not quiet the way  *)
(* there may be blocked.                                                   *)
Accepts(ip) == ip \in Squatted \/ \E h \in Hosts : origin[h] = ip
Connects(ip) == IF quiet THEN {Accepts(ip)} ELSE {FALSE} \cup {Accepts(ip)}

(* The cached address; when nothing accepts there, Invalidate.             *)
Invalidate(m, h) == [m EXCEPT ![h] = NoEntry]
DialCached(d) ==
    /\ Is(d, "cached")
    /\ \E ok \in Connects(client[d].map[client[d].host].ip) :
         LET c == client[d]  m == Invalidate(c.map, c.host) IN
         IF ok THEN To(d, [c EXCEPT !.at = "tls", !.ip = c.map[c.host].ip]) /\ UNCHANGED tofu
               ELSE To(d, [c EXCEPT !.at = "resolve", !.map = m]) /\ Persist(m)
    /\ UNCHANGED <<origin, endpointUp, quiet>>

(* LookupHost asks the endpoints that are not parked, and parks those that *)
(* fail; when all are parked it releases them and asks once more.  When    *)
(* that fails too, the dialer asks the system resolver itself, and what it *)
(* finds is not stored.                                                    *)
AllParked(c) == c.parked = Endpoints
Asked(c) == IF AllParked(c) THEN Endpoints ELSE Endpoints \ c.parked
Answers(c) == Asked(c) \cap endpointUp # {}
Resolve(d) ==
    /\ Is(d, "resolve")
    /\ LET c == client[d] IN
       IF Answers(c)
         THEN \E parked \in IF AllParked(c) THEN {{}}
                            ELSE {c.parked \cup F : F \in SUBSET (Asked(c) \ endpointUp)} :
                To(d, [c EXCEPT !.at = "dial", !.ip = origin[c.host], !.parked = parked])
         ELSE \E ok \in IF quiet THEN {TRUE} ELSE BOOLEAN :
                To(d, [c EXCEPT !.at = IF ok THEN "tls" ELSE "failed", !.ip = origin[c.host],
                                !.parked = IF AllParked(c) THEN {} ELSE Endpoints])
    /\ UNCHANGED <<origin, tofu, endpointUp, quiet>>

(* Thirty seconds are over for a parked endpoint.                          *)
Unpark(d, e) ==
    /\ e \in client[d].parked /\ To(d, [client[d] EXCEPT !.parked = @ \ {e}])
    /\ UNCHANGED <<origin, tofu, endpointUp, quiet>>

(* Store as soon as a resolved address accepts the connection.             *)
Dial(d) ==
    /\ Is(d, "dial")
    /\ \E ok \in Connects(client[d].ip) :
         LET c == client[d]
             m == [c.map EXCEPT ![c.host] = [ip |-> c.ip, old |-> FALSE]] IN
         IF ok THEN To(d, [c EXCEPT !.at = "tls", !.map = m]) /\ Persist(m)
               ELSE To(d, [c EXCEPT !.at = "failed"]) /\ UNCHANGED tofu
    /\ UNCHANGED <<origin, endpointUp, quiet>>

(* The handshake succeeds only at the host itself; so does the download.   *)
Handshake(d) ==
    /\ Is(d, "tls")
    /\ To(d, IF origin[client[d].host] = client[d].ip THEN NoClient
             ELSE [client[d] EXCEPT !.at = "failed"])
    /\ UNCHANGED <<origin, tofu, endpointUp, quiet>>

(* The same client tries again; the download has failed, or is killed.     *)
AttemptsLeft(d) == client[d].tries < MaxAttempts[d]
RetryDownload(d) ==
    /\ Is(d, "failed") /\ AttemptsLeft(d)
    /\ To(d, [client[d] EXCEPT !.at = "lookup", !.tries = @ + 1])
    /\ UNCHANGED <<origin, tofu, endpointUp, quiet>>
EndDownload(d) ==
    /\ ~Is(d, "idle")
    /\ quiet => Is(d, "failed") /\ client[d].tries = MaxAttempts[d]
    /\ To(d, NoClient)
    /\ UNCHANGED <<origin, tofu, endpointUp, quiet>>

(* Days pass: every entry there is, also in memory, comes of age.          *)
OlderEntries(m) == [h \in Hosts |-> IF m[h] = NoEntry THEN NoEntry ELSE [m[h] EXCEPT !.old = TRUE]]
TTLPasses ==
    /\ tofu' = OlderEntries(tofu)
    /\ client' = [d \in Clients |-> [client[d] EXCEPT !.map = OlderEntries(@)]]
    /\ UNCHANGED <<origin, endpointUp, quiet>>

(* A host moves; an endpoint goes or comes back; the world settles.        *)
Moves(h) ==
    /\ ~quiet /\ \E ip \in Addresses : origin' = [origin EXCEPT ![h] = ip]
    /\ UNCHANGED <<tofu, endpointUp, client, quiet>>
Block(e) ==
    /\ ~quiet
    /\ endpointUp' = IF e \in endpointUp THEN endpointUp \ {e} ELSE endpointUp \cup {e}
    /\ UNCHANGED <<origin, tofu, client, quiet>>
Quieten == ~quiet /\ endpointUp # {} /\ quiet' = TRUE /\ UNCHANGED <<origin, tofu, endpointUp, client>>

DownloadStep(d) ==
    LookupTOFU(d) \/ DialCached(d) \/ Resolve(d) \/ Dial(d) \/ Handshake(d) \/ RetryDownload(d)

BootstrapNext ==
    \/ \E d \in Clients :
         \/ StartDownload(d) \/ DownloadStep(d) \/ EndDownload(d)
         \/ \E e \in Endpoints : Unpark(d, e)
    \/ TTLPasses \/ Quieten
    \/ \E h \in Movers : Moves(h)
    \/ \E e \in Endpoints : Block(e)

-----------------------------------------------------------------------------
(* Properties                                                              *)

(* dns_tofu.go:20: a cached address of a host that moved holds downloads   *)
(* up for a TTL at most, also when someone else answers there, when the    *)
(* endpoints were blocked meanwhile, and although downloads of other hosts *)
(* write entries back that this one had removed: once the world is quiet,  *)
(* there comes a time after which no download fails.                       *)
DownloadsRecover ==
    <>[](quiet => \A d \in Clients : ~(Is(d, "failed") /\ client[d].tries = MaxAttempts[d]))

(* dns_tofu.go:123: "Callers should invoke this on connection failures     *)
(* (RST, refused, TLS handshake fail)": an address at which an attempt     *)
(* failed is not kept for the next one.  NewClient invalidates only what   *)
(* refuses the connection (httpclient.go:95).                              *)
FailureForgetsAddress ==
    \A d \in Clients : Is(d, "failed") => client[d].map[client[d].host].ip # client[d].ip
=============================================================================
