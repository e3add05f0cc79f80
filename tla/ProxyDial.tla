------------------------------- MODULE ProxyDial -------------------------------
(***************************************************************************)
(* ProxyService and the dialling of the exchanges through its proxies.       *)
(*                                                                          *)
(* The updater replaces the proxy list every 30 minutes; each exchange       *)
(* manager dials by going through a copy of the list with the shared working *)
(* proxy first, and makes the proxy it came through the working one.  The    *)
(* list and the working proxy have a lock each, and neither is held while    *)
(* dialling.                                                                *)
(*                                                                          *)
(* "" is the direct connection.  A line of the fetched text is abstracted to *)
(* the URL that parseProxyList makes of it (with or without a scheme, so two *)
(* lines may give one URL), "" if it is empty, a comment or not valid.       *)
(***************************************************************************)
EXTENDS Naturals, Sequences, Positions

CONSTANTS
    Proxy,         \* proxy URLs that isValidProxyURL accepts
    Unparsable,    \* those of them url.Parse rejects, such as a port that is no number
    Direct,        \* the direct connection, ""
    Fetched,       \* the texts the updater may get: sequences of URLs and Direct
    Exchange,      \* the managers that dial
    MaxFaults      \* bound: failed attempts, per exchange

ASSUME ProxySets == Direct \notin Proxy /\ Unparsable \subseteq Proxy /\ MaxFaults \in Nat
ASSUME FetchedAreTexts == Fetched \subseteq Seq(Proxy \cup {Direct})

VARIABLES
    proxyList, workingProxy,    \* the service's fields
    update,       \* what the updater has parsed and not yet stored, <<>> for nothing
    stage,        \* where each manager is
    list, at,     \* per manager: its copy of the list, the position in it
    tried,        \* per manager: paths tried in this dial
    used,         \* proxies some connection was made through
    faults        \* per manager: attempts that failed

pdVars == <<proxyList, workingProxy, update, stage, list, at, tried, used, faults>>

Entry == Proxy \cup {Direct}

DialInit ==
    /\ proxyList = <<Direct>>
    /\ workingProxy = Direct
    /\ update = <<>>
    /\ stage = [x \in Exchange |-> "idle"]
    /\ list = [x \in Exchange |-> <<>>]
    /\ at = [x \in Exchange |-> 1]
    /\ tried = [x \in Exchange |-> {}]
    /\ used = {}
    /\ faults = [x \in Exchange |-> 0]

\* parseProxyList: the valid lines, then the direct connection.
ParseProxyList(text) == Append(Kept(text, {i \in DOMAIN text : text[i] # Direct}), Direct)

\* fetchProxies gets and parses a list (if it fails nothing changes) ...
FetchProxies(text) ==
    /\ update = <<>>
    /\ update' = ParseProxyList(text)
    /\ UNCHANGED <<proxyList, workingProxy, stage, list, at, tried, used, faults>>

\* ... which is not empty, and stores it.
StoreProxies ==
    /\ update # <<>>
    /\ proxyList' = update
    /\ update' = <<>>
    /\ UNCHANGED <<workingProxy, stage, list, at, tried, used, faults>>

\* GetProxyListWithWorkingFirst: the copy under one lock ...
CopyList(x) ==
    /\ stage[x] = "idle"
    /\ list' = [list EXCEPT ![x] = proxyList]
    /\ at' = [at EXCEPT ![x] = 1]
    /\ tried' = [tried EXCEPT ![x] = {}]
    /\ stage' = [stage EXCEPT ![x] = "copied"]
    /\ UNCHANGED <<proxyList, workingProxy, update, used, faults>>

WorkingFirst(l) ==
    IF workingProxy = Direct THEN l
    ELSE <<workingProxy>> \o Kept(l, {i \in DOMAIN l : l[i] # workingProxy})

\* ... and the working proxy under the other.
ReadWorking(x) ==
    /\ stage[x] = "copied"
    /\ list' = [list EXCEPT ![x] = WorkingFirst(list[x])]
    /\ stage' = [stage EXCEPT ![x] = "dial"]
    /\ UNCHANGED <<proxyList, workingProxy, update, at, tried, used, faults>>

\* createDialerWithProxy: the path an attempt really takes.
Via(u) == IF u \in Unparsable THEN Direct ELSE u
Current(x) == list[x][at[x]]

\* dialer.Dial succeeds.
DialSucceeds(x) ==
    /\ stage[x] = "dial"
    /\ used' = used \cup {Via(Current(x))}
    /\ stage' = [stage EXCEPT ![x] = "mark"]
    /\ UNCHANGED <<proxyList, workingProxy, update, list, at, tried, faults>>

\* It fails: the next entry, or the end of the list.
GiveUpOrNext(x, stop) ==
    /\ faults[x] < MaxFaults
    /\ faults' = [faults EXCEPT ![x] = @ + 1]
    /\ tried' = [tried EXCEPT ![x] = @ \cup {Via(Current(x))}]
    /\ IF stop \/ at[x] = Len(list[x])
       THEN stage' = [stage EXCEPT ![x] = "failed"] /\ UNCHANGED at
       ELSE at' = [at EXCEPT ![x] = @ + 1] /\ UNCHANGED stage
    /\ UNCHANGED <<proxyList, workingProxy, update, list, used>>

\* 403 Forbidden: the exchange blocks this address.
Forbidden(x) == stage[x] = "dial" /\ GiveUpOrNext(x, FALSE)

OtherErrorAlwaysFirst(x) == stage[x] = "dial" /\ GiveUpOrNext(x, at[x] = 1)     \* mutant

\* Any other error: it ends the dial when a direct connection was the first attempt.
OtherError(x) == stage[x] = "dial" /\ GiveUpOrNext(x, at[x] = 1 /\ Current(x) = Direct)

MarkFirst(x) ==     \* mutant: the first entry is marked, not the one that connected
    /\ stage[x] = "mark"
    /\ workingProxy' = IF Current(x) = Direct THEN workingProxy ELSE list[x][1]
    /\ stage' = [stage EXCEPT ![x] = "connected"]
    /\ UNCHANGED <<proxyList, update, list, at, tried, used, faults>>

\* connectExchange: a proxy that was used becomes the working one (SetWorkingProxy).
MarkWorking(x) ==
    /\ stage[x] = "mark"
    /\ workingProxy' = IF Current(x) = Direct THEN workingProxy ELSE Current(x)
    /\ stage' = [stage EXCEPT ![x] = "connected"]
    /\ UNCHANGED <<proxyList, update, list, at, tried, used, faults>>

\* The connection is lost, or the manager's delay after a failed dial is over.
DialAgain(x) ==
    /\ stage[x] \in {"connected", "failed"}
    /\ stage' = [stage EXCEPT ![x] = "idle"]
    /\ UNCHANGED <<proxyList, workingProxy, update, list, at, tried, used, faults>>

Dialling(x) ==
    \/ CopyList(x) \/ ReadWorking(x)
    \/ DialSucceeds(x) \/ Forbidden(x) \/ OtherError(x) \/ MarkWorking(x)

DialNext ==
    \/ \E text \in Fetched : FetchProxies(text)
    \/ StoreProxies
    \/ \E x \in Exchange : Dialling(x) \/ DialAgain(x)

DialSpec == DialInit /\ [][DialNext]_pdVars

--------------------------------------------------------------------------------

\* The types of the service and of the dialling managers.
DialTypes ==
    /\ proxyList \in Seq(Entry) \ {<<>>} /\ update \in Seq(Entry)
    /\ workingProxy \in Entry
    /\ stage \in [Exchange -> {"idle", "copied", "dial", "mark", "connected", "failed"}]
    /\ list \in [Exchange -> Seq(Entry)]
    /\ at \in [Exchange -> Nat \ {0}]
    /\ \A x \in Exchange : stage[x] \in {"dial", "mark"} => at[x] \in 1..Len(list[x])
    /\ tried \in [Exchange -> SUBSET Entry]
    /\ used \subseteq Entry
    /\ faults \in [Exchange -> 0..MaxFaults]

\* dialWithProxy: whatever list was stored and whichever proxy was made the working one
\* while it went along, a dial does not fail before the direct connection, the fallback of
\* every list, has been tried.
FailedTriedDirect == \A x \in Exchange : stage[x] = "failed" => Direct \in tried[x]

\* SetWorkingProxy "stores a proxy that successfully connected": the working proxy is one
\* that some connection was made through.  A URL that does not parse is the exception:
\* it becomes the working one for a connection that was direct.
WorkingHasConnected ==
    workingProxy # Direct =>
        workingProxy \in used \/ (workingProxy \in Unparsable /\ Direct \in used)
================================================================================
