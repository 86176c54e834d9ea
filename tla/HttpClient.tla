------------------------------- MODULE HttpClient -------------------------------
(***************************************************************************)
(* What the browser's HTTP client makes of a response.  A request either   *)
(* throws or returns the parsed body; a body that is not JSON is dropped   *)
(* and returned as null.  There is neither a timeout nor a retry.          *)
(***************************************************************************)

EXTENDS Naturals

CONSTANT Null    \* JavaScript's null

\* What fetch comes back with: nothing, or a response.
Unreachable == [arrived |-> FALSE, status |-> 0, json |-> FALSE, body |-> Null]
Response(status, json, body) ==
    [arrived |-> TRUE, status |-> status, json |-> json, body |-> body]

Threw(what) == [threw |-> TRUE, error |-> what, value |-> Null]
Returned(value) == [threw |-> FALSE, error |-> "none", value |-> value]

HandleResponse(r) ==
    CASE r.status >= 200 /\ r.status < 300 -> Returned(IF r.json THEN r.body ELSE Null)
      [] r.status = 404 -> Threw("not_found")
      [] r.status >= 500 -> Threw("server")
      [] OTHER -> Threw("request")

\* Whatever fetch throws becomes an error of the client's own.
Request(r) == IF r.arrived THEN HandleResponse(r) ELSE Threw("network")

Get(r) == Request(r)
Post(r) == Request(r)
Put(r) == Request(r)
Delete(r) == Request(r)
================================================================================
