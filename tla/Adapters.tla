------------------------------ MODULE Adapters ------------------------------
(***************************************************************************)
(* How a webhook is recognised (internal/adapters) and how the playground  *)
(* makes one (internal/playground/simulate.go).                            *)
(*                                                                         *)
(* A request is reduced to what the adapters look at:                      *)
(*   sig    the header with a signature, and key, the secret it was made   *)
(*          with; late: its timestamp is older than stripeTolerance        *)
(*   names  the headers with an id, as a function to the ids               *)
(*   body   the provider that wrote it and the id in it                    *)
(* A MAC is right exactly when it was made with the same secret over the   *)
(* same content, so a signature is its key.  Secrets are stored trimmed.   *)
(***************************************************************************)
EXTENDS Integers, Sequences

CONSTANT None       \* no header, no id, the empty secret

\* registry; also the CHECK on connections.source_type.
SourceTypes == {"stripe", "github", "easypost", "generic_hmac", "internal"}

\* The header is there, the connection has a secret and the MAC is right.
Signed(header, req, secret) ==
    req.sig = header /\ secret # None /\ req.key = secret

StripeVerify(req, secret) == Signed("Stripe-Signature", req, secret) /\ ~ req.late
GitHubVerify(req, secret) == Signed("X-Hub-Signature-256", req, secret)
EasyPostVerify(req, secret) == Signed("X-Hmac-Signature", req, secret)
GenericHMACVerify(req, secret) == Signed("X-Signature", req, secret)

Verify(source, req, secret) ==
    CASE source = "stripe"       -> StripeVerify(req, secret)
      [] source = "github"       -> GitHubVerify(req, secret)
      [] source = "easypost"     -> EasyPostVerify(req, secret)
      [] source = "generic_hmac" -> GenericHMACVerify(req, secret)
      [] source = "internal"     -> TRUE

Named(id) == [by |-> "id", value |-> id]
hashBody(body) == [by |-> "hash", value |-> body]

BodyID(req) == IF req.body.id # None THEN Named(req.body.id) ELSE hashBody(req.body)

\* The first of the headers that is there.
HeaderID(headers, req) ==
    LET there == {i \in DOMAIN headers : headers[i] \in DOMAIN req.names}
    IN  IF there = {} THEN hashBody(req.body)
        ELSE Named(req.names[headers[CHOOSE i \in there : \A j \in there : i <= j]])

ExtractEventID(source, req) ==
    CASE source \in {"stripe", "easypost"} -> BodyID(req)
      [] source = "github"       -> HeaderID(<<"X-GitHub-Delivery">>, req)
      [] source = "generic_hmac" -> HeaderID(<<"X-Event-Id", "X-Request-Id">>, req)
      [] source = "internal"     -> HeaderID(<<"X-Tuma-Event-Id">>, req)

-----------------------------------------------------------------------------
\* The providers buildSignedRequest knows; for another one it fails.
Simulated == {"stripe", "github", "easypost", "internal"}

NoNames == [h \in {} |-> None]
Content(provider, id) == [by |-> provider, id |-> id]

stripePayload(secret, id) ==
    [sig |-> "Stripe-Signature", key |-> secret, late |-> FALSE,
     names |-> NoNames, body |-> Content("stripe", id)]

\* The body of a simulated GitHub event is the same every time.
githubPayload(secret, id) ==
    [sig |-> "X-Hub-Signature-256", key |-> secret, late |-> FALSE,
     names |-> [h \in {"X-GitHub-Delivery"} |-> id], body |-> Content("github", None)]

easypostPayload(secret, id) ==
    [sig |-> "X-Hmac-Signature", key |-> secret, late |-> FALSE,
     names |-> NoNames, body |-> Content("easypost", id)]

internalPayload(id) ==
    [sig |-> None, key |-> None, late |-> FALSE,
     names |-> [h \in {"X-Tuma-Event-Id"} |-> id], body |-> Content("internal", id)]

buildSignedRequest(provider, secret, id) ==
    CASE provider = "stripe"   -> stripePayload(secret, id)
      [] provider = "github"   -> githubPayload(secret, id)
      [] provider = "easypost" -> easypostPayload(secret, id)
      [] provider = "internal" -> internalPayload(id)

=============================================================================
