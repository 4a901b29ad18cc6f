----------------------------- MODULE SynCookies -----------------------------
(* SynCookies: the random values a node sends to an endpoint in a handshake *)
(* query and expects back signed.  One per endpoint, a few per IP address.  *)
(* cookies_per_ip is the number of cookies with that address: both change   *)
(* together under the one mutex.  An endpoint is an IP address and a port.  *)
EXTENDS FiniteSets, Functions

VARIABLE cookies   \* per node: the cookie assigned to each endpoint

CookiesPerIp(n, ip) == Cardinality({ep \in DOMAIN cookies[n] : ep[1] = ip})

(* assign returns a cookie: the endpoint has none yet, its IP is not capped *)
Assigns(n, ep, max_cookies_per_ip) ==
    /\ ep \notin DOMAIN cookies[n]
    /\ CookiesPerIp(n, ep[1]) < max_cookies_per_ip

Assigned(held, ep, cookie) == [e \in DOMAIN held \cup {ep} |-> IF e = ep THEN cookie ELSE held[e]]

(* cookie(): taken out of the container, whatever becomes of the response   *)
Taken(held, ep) == Restrict(held, DOMAIN held \ {ep})

(* Slip: a cookie nobody came back for stays                                *)
Purged_Never(n, expired) == cookies

(* purge: the cookies past the cutoff are dropped                           *)
Purged(n, expired) == [cookies EXCEPT ![n] = Restrict(@, DOMAIN @ \ expired)]

=============================================================================
