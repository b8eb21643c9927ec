---- MODULE MCMetricsServer ----
(***************************************************************************)
(* Small instances of MetricsServer: two clients, what each may ask and    *)
(* from which peer.                                                        *)
(***************************************************************************)
EXTENDS MetricsServer, TLC

CONSTANTS c1, c2, home, abroad, banned

MCPeers == [host : {home, abroad, banned}, port : {1, 2}]
Home(port) == [host |-> home, port |-> port]

Offer(method, target, auth, length, format, lines, peer) ==
    [request |-> [method |-> method, target |-> target, auth |-> auth,
                  length |-> length, format |-> format, lines |-> lines, long |-> "none"],
     peer |-> peer]
Long(offer, part) == [offer EXCEPT !.request.long = part]

Ingest(auth, format, lines, peer) ==
    Offer("POST", "ingest", auth, "fits", format, lines, peer)
Page(target, auth, peer) == Offer("GET", target, auth, "none", "simple", <<>>, peer)

\* c1 ingests, the second time with a line that is too long behind its
\* credentials; c2, the second client of the same peer, or of another host or
\* port, asks everything else, and loses its credentials or its request to such a
\* line.
MCOffers ==
    c1 :> {Ingest("plain", "simple", <<"good", "junk">>, Home(1)),
           Long(Ingest("mention", "prometheus", <<"good">>, Home(1)), "blank")}
    @@ c2 :> {Ingest("none", "simple", <<"good">>, Home(1)),
              Offer("POST", "metrics", "plain", "over", "simple", <<>>, Home(2)),
              Page("healthz", "none", [host |-> banned, port |-> 1]),
              Page("other", "plain", Home(1)),
              Page("metrics", "plain", Home(1)),
              Long(Page("status", "plain", Home(1)), "auth"),
              Long(Page("status", "plain", Home(1)), "line")}

\* Two connections of one host, each from a port of its own.
MCPortOffers ==
    c1 :> {Page("metrics", "plain", Home(1))} @@ c2 :> {Page("metrics", "plain", Home(2))}

\* Credentials as docs/configuration.md:34 gives them, and a text without a colon.
MCMentionOffers ==
    c1 :> {Ingest("plain", "simple", <<"good">>, Home(1))}
    @@ c2 :> {Page("metrics", "mention", Home(2))}
====
