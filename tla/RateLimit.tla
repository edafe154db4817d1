------------------------------ MODULE RateLimit ------------------------------
(***************************************************************************)
(* RateLimitMiddleware (python/lapinq/server.py): a sliding window of      *)
(* request times per client address, with a bound on the number of         *)
(* addresses it remembers.  Nothing awaits while dispatch holds its lock,  *)
(* so one dispatch is one step.                                            *)
(*                                                                         *)
(* A time is kept as its distance to now, so t > window_start reads        *)
(* age < WindowSeconds.  A list of times is the set of its stamps, because *)
(* the code looks at their number and their ages only; the times of one    *)
(* unit are told apart by a number.                                        *)
(***************************************************************************)
EXTENDS Integers, FiniteSetsExt

CONSTANTS
  Ips,            \* client addresses
  MaxRequests,    \* max_requests
  WindowSeconds,  \* window_seconds
  MaxClients      \* max_clients

VARIABLES
  requests,       \* _requests; {} is no entry
  admitted,       \* history: the requests of the last window that passed
  drops           \* history: when an entry was lost that still counted

limiter == <<requests, admitted, drops>>

ASSUME RateLimitAssumption ==
  /\ MaxRequests \in Nat \ {0}
  /\ WindowSeconds \in Nat \ {0}
  /\ MaxClients \in Nat \ {0}

RateLimitInit ==
  /\ requests = [ip \in Ips |-> {}]
  /\ admitted = [ip \in Ips |-> {}]
  /\ drops = [ip \in Ips |-> {}]

InWindow(stamps) == {x \in stamps : x.age < WindowSeconds}

StampOf(n) == [age |-> 0, no |-> n]

\* timestamps.append(now): one more stamp, with a number that is free.
Stamped(stamps) ==
  stamps \cup {StampOf(CHOOSE n \in 0 .. Cardinality(stamps) : StampOf(n) \notin stamps)}

\* max(timestamps) of an entry.
LastSeen(ip) == Min({x.age : x \in requests[ip]})

LiveThisSecond == {ip \in Ips : \E x \in requests[ip] : x.age = 0}

\* The entries that are not stale.
Live == {ip \in Ips : InWindow(requests[ip]) # {}}

\* _evict: what it may leave of the entries, the ones seen last.
Survivors ==
  {K \in SUBSET Live : /\ Cardinality(K) = Min({Cardinality(Live), MaxClients})
                       /\ \A i \in K, j \in Live \ K : LastSeen(i) <= LastSeen(j)}

EntriesCountingRefused(K, ip, times, passes) ==
  [i \in Ips |-> IF i = ip THEN Stamped(IF passes THEN times ELSE {})
                 ELSE IF i \in K THEN requests[i] ELSE {}]

\* The entries of K, with the request of ip appended if it passes.
Entries(K, ip, times, passes) ==
  [i \in Ips |-> IF i = ip /\ passes THEN Stamped(times)
                 ELSE IF i \in K THEN requests[i] ELSE {}]

\* dispatch of a request from ip, which passes or is answered with 429.
Dispatch(ip, passes) ==
  \E K \in Survivors :
    LET times == IF ip \in K THEN InWindow(requests[ip]) ELSE {}
    IN /\ passes = (Cardinality(times) < MaxRequests)
       /\ requests' = Entries(K, ip, times, passes)
       /\ admitted' = IF passes THEN [admitted EXCEPT ![ip] = Stamped(@)] ELSE admitted
       /\ drops' = [i \in Ips |-> IF i \in Live \ K THEN Stamped(drops[i]) ELSE drops[i]]

\* A stamp outside the window is as old as any other such.
Older(stamps) == {[x EXCEPT !.age = Min({@ + 1, WindowSeconds})] : x \in stamps}

\* Time passes.
RateLimitTick ==
  /\ requests' = [ip \in Ips |-> Older(requests[ip])]
  /\ admitted' = [ip \in Ips |-> InWindow(Older(admitted[ip]))]
  /\ drops' = [ip \in Ips |-> InWindow(Older(drops[ip]))]

\* The limit holds although entries are evicted: an address gets more than
\* max_requests through in a window only if the middleware had to forget it
\* in that window, and never more than max_requests for each time it did.
RateHeld ==
  \A ip \in Ips : Cardinality(admitted[ip]) <= MaxRequests * (1 + Cardinality(drops[ip]))
=============================================================================
