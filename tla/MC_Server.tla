---------------------------- MODULE MC_Server ------------------------------
EXTENDS HttpServer, TLC

CONSTANTS i1, i2

MCSkew == (i1 :> 0) @@ (i2 :> 1)

Flat == {<<"field", "field">>}
Token == [alg |-> "RS256", signed |-> TRUE, expired |-> FALSE, issuer |-> "idp",
          sub |-> "alice", operations |-> Nobody]
Post == [path |-> "/graphql", method |-> "POST", origin |-> "", json |-> TRUE,
         bearer |-> Token, apiKey |-> "k1", remote |-> "a", forwarded |-> <<>>,
         selections |-> Flat]

Get(p) == [Post EXCEPT !.method = "GET", !.path = p]
ProbeRequests == {Get("/health"), Get("/ready")}

\* Requests by what they exercise.
Tokens ==
    {[Post EXCEPT !.bearer = b] :
        b \in {Nobody, Token, [Token EXCEPT !.alg = "HS256"],
               [Token EXCEPT !.expired = TRUE], [Token EXCEPT !.issuer = "x"],
               [Token EXCEPT !.sub = ""],
               [Token EXCEPT !.operations = {"mutation"}]}}
Secrets == {[Post EXCEPT !.apiKey = k] : k \in {"", "k1", "k2", "k3"}}
Paths ==
    {Get("/graphql"), Get("/"), Get("/playground"), [Post EXCEPT !.json = FALSE],
     [Post EXCEPT !.path = "/graphql/"]}
    \cup {[Post EXCEPT !.origin = o, !.method = "OPTIONS"] : o \in {"site", "other"}}
Hops ==
    {[Post EXCEPT !.remote = r, !.forwarded = f] :
        r \in {"a", "p"},
        f \in {<<>>, << <<"b">> >>, << <<"x", "b", "p">> >>, << <<"p">> >>,
               << <<"x">>, <<"b">> >>}}
Documents ==
    {[Post EXCEPT !.selections = s] :
        s \in {Flat, {<<"field">>, <<"field", "inline", "field">>},
               {<<"spread", "field", "field", "field">>},
               {<<"field", "spread", "field">>}}}

MCApiKeys == << [id |-> "reader", secret |-> "k1", expired |-> FALSE,
              operations |-> {"query"}],
             [id |-> "old", secret |-> "k2", expired |-> TRUE,
              operations |-> {"query"}],
             [id |-> "again", secret |-> "k2", expired |-> FALSE,
              operations |-> {"query"}] >>

Plain == [slots |-> 1, mode |-> "production", allowGet |-> FALSE, auth |-> "jwt",
          origins |-> {"site"}, extractor |-> TRUE, proxies |-> {"p"},
          issuer |-> "idp", requests |-> Tokens \cup ProbeRequests]
Open == [Plain EXCEPT !.auth = "none", !.requests = {Post} \cup ProbeRequests]
MCSites ==
    {Plain,
     [Plain EXCEPT !.issuer = "", !.requests = Tokens],
     [Plain EXCEPT !.auth = "apikey", !.slots = 0, !.requests = Secrets],
     [Plain EXCEPT !.requests = Paths],
     [Open EXCEPT !.mode = "development", !.requests = Paths],
     [Open EXCEPT !.allowGet = TRUE, !.requests = Paths],
     [Open EXCEPT !.requests = Hops],
     [Open EXCEPT !.extractor = FALSE, !.requests = Documents]}
=============================================================================
