----------------------------- MODULE ImageProxy -----------------------------
(***************************************************************************)
(* The image route: a request for an item's photo is answered from Odoo.   *)
(* The upstream fetch is awaited, then its body is read chunk by chunk      *)
(* under a cap; meanwhile the client may hang up, and ten seconds after     *)
(* its start the fetch is aborted.  Sizes are in units of which MaxImage    *)
(* are allowed.                                                            *)
(***************************************************************************)
EXTENDS Naturals

CONSTANTS Request,
          MaxImage, MaxChunk   \* bound: the largest chunk Odoo sends

VARIABLES
  at,         \* at[r]: the await the handler of request r is at
  status,     \* status[r]: the status the response got, Unanswered before
  response,   \* response[r]: "open"; "ended" by the handler; "closed" when the socket is done with it
  upstream,   \* upstream[r]: the connection to Odoo: "none", "open" or "closed"
  held,       \* held[r]: how much of the body is buffered
  image       \* image[r]: what Odoo sends: its kind, and whether all of it has come

requestVars == <<at, status, response>>
imageVars == <<upstream, held, image>>

Unanswered == 0
ImageAssumption == MaxImage \in Nat /\ MaxChunk \in Nat \ {0}
ASSUME ImageAssumption

ImageInit ==
  /\ at = [r \in Request |-> "sent"]
  /\ status = [r \in Request |-> Unanswered]
  /\ response = [r \in Request |-> "open"]
  /\ upstream = [r \in Request |-> "none"]
  /\ held = [r \in Request |-> 0]
  /\ image = [r \in Request |-> [kind |-> "none", whole |-> FALSE]]

(* The handler is done: it answers, or, when the client is gone, is silent. *)
Answer(r, code) ==
  /\ at' = [at EXCEPT ![r] = "done"]
  /\ status' = [status EXCEPT ![r] = IF response[r] = "closed" THEN @ ELSE code]
  /\ response' = [response EXCEPT ![r] = IF @ = "closed" THEN @ ELSE "ended"]

GoOn(r, next) == at' = [at EXCEPT ![r] = next] /\ UNCHANGED <<status, response>>

fetchImage(r) ==
  /\ GoOn(r, "fetch")
  /\ upstream' = [upstream EXCEPT ![r] = "open"]
  /\ UNCHANGED <<held, image>>

(* The head of Odoo's answer.  All but an image that may fit is refused      *)
(* here, its body unread: an error status, a page instead of an image, an   *)
(* SVG, and a declared length above the cap.  A declared length may be      *)
(* absent or wrong.                                                        *)
headers(r) ==
  /\ at[r] = "fetch" /\ upstream[r] = "open"
  /\ \E kind \in {"not_modified", "error", "page", "svg", "picture"}, tooLong \in BOOLEAN :
       /\ image' = [image EXCEPT ![r].kind = kind]
       /\ CASE kind = "not_modified" -> Answer(r, 304)
            [] kind = "picture" /\ ~tooLong -> GoOn(r, "body")
            [] OTHER -> Answer(r, 502)
  /\ UNCHANGED <<upstream, held>>

\* Mutant: the declared length is trusted.
readTrusting(r) ==
  /\ at[r] = "body" /\ upstream[r] = "open"
  /\ \E chunk \in 1..MaxChunk : held' = [held EXCEPT ![r] = @ + chunk]
  /\ held[r] <= MaxImage
  /\ UNCHANGED <<requestVars, upstream, image>>

(* One chunk.  What would go over the cap is not kept: the body is          *)
(* cancelled, and the cancellation awaited.                                *)
readCapped(r) ==
  /\ at[r] = "body" /\ upstream[r] = "open"
  /\ \E chunk \in 1..MaxChunk :
       \/ /\ held[r] + chunk <= MaxImage
          /\ held' = [held EXCEPT ![r] = @ + chunk]
          /\ UNCHANGED <<requestVars, upstream>>
       \/ /\ held[r] + chunk > MaxImage
          /\ upstream' = [upstream EXCEPT ![r] = "closed"]
          /\ GoOn(r, "cancel") /\ UNCHANGED held
  /\ UNCHANGED image

bodyEnds(r) ==
  /\ at[r] = "body" /\ upstream[r] = "open"
  /\ upstream' = [upstream EXCEPT ![r] = "closed"]
  /\ image' = [image EXCEPT ![r].whole = TRUE]
  /\ Answer(r, 200)
  /\ UNCHANGED held

(* The connection breaks, or the timeout aborts it: the await rejects, as   *)
(* it does after the client hung up.                                       *)
fails(r) ==
  /\ at[r] \in {"fetch", "body", "cancel"}
  /\ upstream' = [upstream EXCEPT ![r] = "closed"]
  /\ Answer(r, 502)
  /\ UNCHANGED <<held, image>>

(* The response closes: the client hangs up, or the answer has been sent.   *)
(* Whatever is left of the upstream fetch is aborted.                      *)
closes(r) ==
  /\ at[r] # "sent" /\ response[r] # "closed"
  /\ response' = [response EXCEPT ![r] = "closed"]
  /\ upstream' = [upstream EXCEPT ![r] = IF @ = "open" THEN "closed" ELSE @]
  /\ UNCHANGED <<at, status, held, image>>

ProxyStep(r) == headers(r) \/ readCapped(r) \/ bodyEnds(r) \/ fails(r)

-----------------------------------------------------------------------------
(* However long the body and whatever the length declared, no more than the  *)
(* cap is buffered; an upstream connection never outlives the response it is *)
(* read for, whether the client hung up, the handler refused without reading *)
(* or all went well; and a 200 carries a whole picture, never a page, a      *)
(* script or a torn one.                                                     *)
ProxyBounded ==
  \A r \in Request :
    /\ held[r] <= MaxImage
    /\ response[r] = "closed" => upstream[r] # "open"
    /\ (status[r] = 200 /\ upstream[r] # "none") => image[r] = [kind |-> "picture", whole |-> TRUE]
=============================================================================
