-------------------------- MODULE RequestValidator --------------------------
(***************************************************************************)
(* internal/validation/request_validation.go: one request on its way       *)
(* through WithTimeout around WithSizeLimit around a handler.  WithTimeout *)
(* serves the request on a goroutine of its own and waits for it or for    *)
(* its timer, so two goroutines share one response.                        *)
(*                                                                         *)
(* What is wrong with the head of a request is a set of flaws, one for     *)
(* each check that may refuse it.  A body is a sequence of the bytes the   *)
(* scan of JSON tells apart.  net/http is external: the first status       *)
(* written counts, one that writes none is a 200, and a body is as long as *)
(* a Content-Length says or cannot be read.                                *)
(***************************************************************************)
EXTENDS Integers, Sequences

CONSTANTS Incoming,                   \* the requests that may come
          MaxBodySize, MaxJSONSize

VARIABLES
  strict,   \* config.ValidateContentLength
  request,  \* the request, or NoRequest
  serving,  \* its goroutine: "idle", checks "head" or "body", in the "handler",
            \* or "done"
  wrapper,  \* WithTimeout: "idle", "waiting" or "returned"
  status    \* what the client is told: "none" yet, or how it was decided

requestVars == <<strict, request, serving, wrapper, status>>

Bytes == {"{", "}", "[", "]", "quote", "escape", "other"}

\* Of the request line: method, path, query.
LineFlaws == {"method", "path", "query"}
\* Of the headers: their size, the ones required, the host, the user agent.
HeaderFlaws == {"headers", "host", "user agent"}
\* Of what they say of the body, and the cookies.  A server's request always has
\* a body, if an empty one, so one that has no Content-Length is refused.
ContentFlaws == {"no length", "content type", "cookies"}

RequestType == [flaws : SUBSET STRING, json : BOOLEAN, body : Seq(Bytes)]

ASSUME RequestAssumption ==
  /\ MaxBodySize \in Nat \ {0} /\ MaxJSONSize \in Nat
  /\ Incoming \subseteq RequestType

NoRequest == [flaws |-> {}, json |-> FALSE, body |-> <<>>]

RequestInit ==
  /\ strict \in BOOLEAN
  /\ request = NoRequest
  /\ serving = "idle" /\ wrapper = "idle" /\ status = "none"

-----------------------------------------------------------------------------
(* The checks *)

LengthPasses(r) == "no length" \notin r.flaws /\ Len(r.body) <= MaxBodySize

\* Which check refuses first makes no difference but to the wording.
ValidateHTTPRequest(r, lengths) ==
  /\ r.flaws \cap (LineFlaws \cup HeaderFlaws \cup (ContentFlaws \ {"no length"})) = {}
  /\ lengths => LengthPasses(r)

\* Fault: a backslash escapes nothing.
FaultyScanned(s, b) ==
  CASE b = "quote" -> [s EXCEPT !.inString = ~@]
    [] b = "{" /\ ~s.inString -> [s EXCEPT !.braces = @ + 1]
    [] b = "}" /\ ~s.inString -> [s EXCEPT !.braces = @ - 1]
    [] b = "[" /\ ~s.inString -> [s EXCEPT !.brackets = @ + 1]
    [] b = "]" /\ ~s.inString -> [s EXCEPT !.brackets = @ - 1]
    [] OTHER -> s

\* The scan of JSON after the next byte.
Scanned(s, b) ==
  CASE s.escaped -> [s EXCEPT !.escaped = FALSE]
    [] ~s.escaped /\ b = "escape" -> [s EXCEPT !.escaped = s.inString]
    [] ~s.escaped /\ b = "quote" -> [s EXCEPT !.inString = ~@]
    [] ~s.escaped /\ ~s.inString /\ b = "{" -> [s EXCEPT !.braces = @ + 1]
    [] ~s.escaped /\ ~s.inString /\ b = "}" -> [s EXCEPT !.braces = @ - 1]
    [] ~s.escaped /\ ~s.inString /\ b = "[" -> [s EXCEPT !.brackets = @ + 1]
    [] ~s.escaped /\ ~s.inString /\ b = "]" -> [s EXCEPT !.brackets = @ - 1]
    [] OTHER -> s

\* It counts braces and brackets apart, so they need not nest, and a string
\* need not end.
isValidJSONStructure(data) ==
  LET scan[i \in 0..Len(data)] ==
        IF i = 0 THEN [braces |-> 0, brackets |-> 0, inString |-> FALSE, escaped |-> FALSE]
        ELSE Scanned(scan[i - 1], data[i])
      end == scan[Len(data)]
  IN  /\ \A i \in DOMAIN scan : scan[i].braces >= 0 /\ scan[i].brackets >= 0
      /\ end.braces = 0 /\ end.brackets = 0

\* What a limited reader gives of a body.
ReadAll(data) ==
  SubSeq(data, 1, IF Len(data) < MaxBodySize THEN Len(data) ELSE MaxBodySize)

\* Fault: only a body longer than the limit is too large, which no reader gives.
FaultyTooLarge(body) == Len(body) > MaxBodySize

TooLarge(body) == Len(body) >= MaxBodySize

\* A body that was cut off at the limit is as long as the limit.
ValidateRequestBody(r) ==
  LET body == ReadAll(r.body)
  IN  CASE TooLarge(body) -> "too large"
        [] ~TooLarge(body) /\ r.json /\ Len(body) > MaxJSONSize -> "too large"
        [] ~TooLarge(body) /\ r.json /\ Len(body) <= MaxJSONSize
             /\ ~isValidJSONStructure(body) -> "bad JSON"
        [] OTHER -> "ok"

-----------------------------------------------------------------------------
(* Actions *)

\* http.Error, and a handler's own WriteHeader or Write.
Reply(s) == status' = IF status = "none" THEN s ELSE status

RequestArrives(r) ==
  /\ wrapper = "idle" /\ serving = "idle"
  /\ request' = r
  /\ serving' = "head" /\ wrapper' = "waiting" /\ status' = "none"
  /\ UNCHANGED strict

HeadChecked ==
  /\ serving = "head"
  /\ IF ValidateHTTPRequest(request, strict)
     THEN serving' = "body" /\ UNCHANGED status
     ELSE serving' = "done" /\ Reply("bad head")
  /\ UNCHANGED <<strict, request, wrapper>>

\* Fault: it goes on to the handler after it has refused.
FaultyBodyChecked ==
  /\ serving = "body"
  /\ LET s == ValidateRequestBody(request)
     IN  /\ serving' = "handler"
         /\ IF s = "ok" THEN UNCHANGED status ELSE Reply(s)
  /\ UNCHANGED <<strict, request, wrapper>>

\* The client may break off, or the connection is gone with the response.
BodyChecked ==
  /\ serving = "body"
  /\ \E s \in {ValidateRequestBody(request), "unreadable"} :
       IF s = "ok" THEN serving' = "handler" /\ UNCHANGED status
                   ELSE serving' = "done" /\ Reply(s)
  /\ UNCHANGED <<strict, request, wrapper>>

\* The handler writes a response, or not, and goes on or returns.
HandlerStep ==
  /\ serving = "handler"
  /\ serving' \in {"handler", "done"}
  /\ Reply("handled") \/ UNCHANGED status
  /\ UNCHANGED <<strict, request, wrapper>>

\* WithTimeout returns: the goroutine is done, or the context is, which does not
\* stop the goroutine.  A handler that writes nothing has succeeded.
Served ==
  /\ wrapper = "waiting" /\ serving = "done"
  /\ wrapper' = "returned"
  /\ Reply("handled")
  /\ UNCHANGED <<strict, request, serving>>

TimesOut ==
  /\ wrapper = "waiting"
  /\ wrapper' = "returned"
  /\ Reply("timeout")
  /\ UNCHANGED <<strict, request, serving>>

RequestOver ==
  /\ wrapper = "returned" /\ serving = "done"
  /\ request' = NoRequest
  /\ serving' = "idle" /\ wrapper' = "idle" /\ status' = "none"
  /\ UNCHANGED strict

RequestNext ==
  \/ \E r \in Incoming : RequestArrives(r)
  \/ HeadChecked \/ BodyChecked \/ HandlerStep \/ Served \/ TimesOut \/ RequestOver

-----------------------------------------------------------------------------
(* Properties *)

RequestTypeOK ==
  /\ strict \in BOOLEAN
  /\ request \in RequestType
  /\ serving \in {"idle", "head", "body", "handler", "done"}
  /\ wrapper \in {"idle", "waiting", "returned"}
  /\ status \in {"none", "bad head", "too large", "bad JSON", "unreadable", "handled", "timeout"}

\* No handler is given a request whose body was judged by its beginning alone,
\* whether or not a Content-Length announces it.
JudgedWhole == serving = "handler" => ReadAll(request.body) = request.body

\* A client that is told its request is refused, by any check, has not had it
\* handled.  One that is told of a timeout may have: the handler goes on, and
\* begins, after the answer.
RefusedIsNotHandled == serving = "handler" => status \in {"none", "handled", "timeout"}

\* The reference for the scan: the texts of length n whose brackets nest and
\* whose strings end, built from what they are made of.
Concat(S, T) == {s \o t : s \in S, t \in T}
Characters[n \in Nat] ==
  IF n = 0 THEN {<<>>}
  ELSE Concat({<<b>> : b \in Bytes \ {"quote", "escape"}}, Characters[n - 1])
         \cup IF n = 1 THEN {}
              ELSE Concat({<<"escape", b>> : b \in Bytes}, Characters[n - 2])
Texts[n \in Nat] ==
  LET Item(k) ==
        IF k = 1 THEN {<<"other">>}
        ELSE {<<"quote">> \o s \o <<"quote">> : s \in Characters[k - 2]}
               \cup {<<"{">> \o t \o <<"}">> : t \in Texts[k - 2]}
               \cup {<<"[">> \o t \o <<"]">> : t \in Texts[k - 2]}
  IN  IF n = 0 THEN {<<>>} ELSE UNION {Concat(Item(k), Texts[n - k]) : k \in 1..n}

\* No request is refused for its structure whose body is a text of JSON.
GoodJSONPasses == status = "bad JSON" => request.body \notin Texts[Len(request.body)]
=============================================================================
