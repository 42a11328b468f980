----------------------------- MODULE FrontEnds -----------------------------
(***************************************************************************)
(* The three front ends of one node over its store and its metrics: the    *)
(* RESP workers, the gRPC service (src/protocol/grpc/cache_service.cpp)    *)
(* and the metrics server (RunMetricsServer in src/server/main.cpp).       *)
(*                                                                         *)
(* The gRPC library runs each call in a thread of its own; a call already  *)
(* begun is completed though the server stops.  The one thread of the      *)
(* metrics server serves its clients one after the other.                  *)
(***************************************************************************)
EXTENDS RespConnection, FiniteSetsExt

CONSTANT Workloads  \* what clients may do: [scripts, calls, scrapes]

VARIABLES
    requests,  \* call -> its request
    answers,   \* call -> its response; empty before
    known,     \* history: call -> keys confirmed to anyone when it began
    begun,     \* calls begun
    listener,  \* where RunMetricsServer is
    scrapes,   \* how many scrapers there may still be
    floor,     \* history: commands answered when the last scraper was accepted
    pages      \* history: the pages rendered

grpc_vars == <<requests, answers, known, begun>>

scrape_vars == <<listener, scrapes, floor, pages>>

ScrapesTotal == "cache_metrics_requests_total"

BootstrapOk == "cache_bootstrap_ok"

Init ==
    \E w \in Workloads :
        /\ RespInit(w.scripts)
        /\ requests = w.calls
        /\ answers = [i \in DOMAIN w.calls |-> << >>]
        /\ known = [i \in DOMAIN w.calls |-> {}]
        /\ begun = {}
        /\ listener = "loop" /\ scrapes = w.scrapes /\ floor = 0 /\ pages = << >>
        /\ store = << >> /\ metrics = SetGauge(<< >>, BootstrapOk, 1) /\ stop = FALSE

\* A signal, the timer, or a listener that cannot be opened.
RequestStop ==
    /\ ~stop /\ stop' = TRUE
    /\ UNCHANGED <<resp_vars, store, metrics, grpc_vars, scrape_vars>>

\* Item i of client c sets key k.
Sets(c, i, k) ==
    LET parts == script[c][i].parts
    IN  Len(parts) = 3 /\ Upper(parts[1]) = Word("SET") /\ parts[2] = k

\* Call i sets key k.
Puts(i, k) == requests[i].rpc = "Set" /\ requests[i].key = k

\* The set of k by client c's item i, or by call i, has been confirmed.
Confirmed(k) ==
    \/ \E c \in Clients : \E i \in 1 .. Answered(c) : replies[c][i].kind = "ok" /\ Sets(c, i, k)
    \/ \E i \in DOMAIN requests : answers[i] # << >> /\ answers[i][1].done /\ Puts(i, k)

\* A client calls the service.
Begin(i) ==
    /\ i \notin begun /\ begun' = begun \cup {i}
    /\ known' = [known EXCEPT ![i] = {k \in {requests[i].key} : Confirmed(k)}]
    /\ UNCHANGED <<resp_vars, shared_vars, requests, answers, scrape_vars>>

\* CacheServiceImpl::Set or Get
Call(i) ==
    /\ i \in begun /\ answers[i] = << >>
    /\ LET command == ServiceCommand(requests[i])
           result == DispatchCommand(command.name, command.args, store)
       IN  /\ store' = result.store
           /\ answers' = [answers EXCEPT ![i] = <<ServiceResponse(requests[i], result)>>]
    /\ UNCHANGED <<resp_vars, metrics, stop, requests, known, begun, scrape_vars>>

\* The loop tests stop, and select returns a client.  (Without one the loop
\* turns.)
Select ==
    /\ listener = "loop" /\ ~stop /\ scrapes > 0
    /\ listener' = "accept"
    /\ UNCHANGED <<resp_vars, shared_vars, grpc_vars, scrapes, floor, pages>>

\* A scraper is accepted, and counted.
AcceptScraper ==
    /\ listener = "accept"
    /\ listener' = "render" /\ scrapes' = scrapes - 1
    /\ floor' = MapThenSumSet(Answered, Clients)
    /\ metrics' = IncrementCounter(metrics, ScrapesTotal)
    /\ UNCHANGED <<resp_vars, store, stop, grpc_vars, pages>>

Executed == MapThenSumSet(LAMBDA c : Answered(c) + (IF at[c] \in {"count", "send", "lost"} THEN 1 ELSE 0),
                          Clients)

\* HandleMetricsClient: the page is sent, or cannot be, and the socket closed.
HandleMetricsClient ==
    /\ listener = "render" /\ listener' = "loop"
    /\ pages' = Append(pages, [body |-> RenderPrometheusMetrics(metrics),
                               floor |-> floor, ceiling |-> Executed])
    /\ UNCHANGED <<resp_vars, shared_vars, grpc_vars, scrapes, floor>>

Respond(c) == Serve(c) /\ UNCHANGED <<grpc_vars, scrape_vars>>

Next ==
    \/ RequestStop \/ Select \/ AcceptScraper \/ HandleMetricsClient
    \/ \E c \in Clients : Respond(c)
    \/ \E i \in DOMAIN requests : Begin(i) \/ Call(i)

vars == <<resp_vars, shared_vars, grpc_vars, scrape_vars>>

Spec == Init /\ [][Next]_vars

-----------------------------------------------------------------------------
\* Properties

\* Somebody sets key k to value v: client d with item i, unless that comes too
\* late or too early for the asker; or a call.
SomeoneSets(k, v, Allowed(_, _)) ==
    \/ \E d \in Clients : \E i \in DOMAIN script[d] :
          Sets(d, i, k) /\ script[d][i].parts[3] = v /\ Allowed(d, i)
    \/ \E i \in begun : Puts(i, k) /\ requests[i].value = v

\* What item n of client c may be answered.
Fits(c, n, r) ==
    LET parts == script[c][n].parts
        Since(i) == \E j \in i + 1 .. n - 1 : Sets(c, j, parts[2])
        Allowed(d, i) == d = c => i < n /\ ~Since(i)
    IN  /\ parts # << >>
        /\ r.kind = "ok" => Sets(c, n, parts[2]) /\ parts[2] # << >>
        /\ r.kind \in {"bulk", "nil"} => Upper(parts[1]) = Word("GET")
        /\ r.kind = "nil" => ~Since(0)
        /\ r.kind = "bulk" => SomeoneSets(parts[2], r.value[1], Allowed)

\* What call i may be answered.
Suits(i, a) ==
    /\ (a.code = "INVALID_ARGUMENT") <=> (requests[i].key = << >>)
    /\ requests[i].rpc = "Set" => (a.done <=> a.code = "OK")
    /\ requests[i].rpc = "Get" =>
         /\ requests[i].key \in known[i] => a.done
         /\ a.done => SomeoneSets(requests[i].key, a.value[1], LAMBDA d, n : TRUE)

\* The n-th response of a connection answers its n-th command: a set is
\* confirmed; a get has a value that someone set for that very key, over RESP
\* or gRPC, never one the asking client had itself replaced before, and never
\* none after a set of its own; nothing behind a malformed frame is answered.
\* A call is refused exactly if its key is empty, and finds what had been
\* confirmed to anyone, through either front end, before it began.
RepliesFit ==
    /\ \A c \in Clients : \A n \in 1 .. Answered(c) : Fits(c, n, replies[c][n])
    /\ \A i \in DOMAIN requests : answers[i] # << >> => Suits(i, answers[i][1])

\* What a scraper reads: no fewer requests than had been answered when it was
\* accepted and no more than were executed when the page was made, to the
\* digits that are printed; never fewer than the scraper before; itself among
\* the scrapers; and the bootstrap gauge.
ScrapesSound ==
    LET Shown(i, name) == IF name \in DOMAIN pages[i].body THEN pages[i].body[name] ELSE 0
    IN  \A i \in DOMAIN pages :
          /\ Printed(pages[i].floor) <= Shown(i, RequestsTotal)
          /\ Shown(i, RequestsTotal) <= Printed(pages[i].ceiling)
          /\ \A j \in 1 .. i - 1 : Shown(j, RequestsTotal) <= Shown(i, RequestsTotal)
          /\ Shown(i, ScrapesTotal) = Printed(i) /\ Shown(i, BootstrapOk) = 1

=============================================================================
