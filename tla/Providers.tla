----------------------------- MODULE Providers -----------------------------
(***************************************************************************)
(* The two payment providers as the adapters see them: how a transaction   *)
(* is opened, the words in which a provider reports on it, and the two     *)
(* tables by which those words are read.  The adapters that verify payment *)
(* intents and the adapters that verify the payments of orders read them   *)
(* differently.  The adapters keep no state.                               *)
(***************************************************************************)

Providers == {"PAYSTACK", "MTN_MOMO"}

-----------------------------------------------------------------------------
(* A provider's own view of a transaction (external) *)

\* "abandoned", the buyer left the checkout, exists at Paystack only.
RawStatuses == {"none", "pending", "abandoned", "failed", "success", "reversed", "other"}

\* A buyer may come back to a checkout that was left or failed; captured funds
\* may be returned.
Settles(provider, old, new) ==
    /\ \/ old \in {"pending", "abandoned"} /\ new \in {"success", "failed", "other"}
       \/ old = "pending" /\ new = "abandoned"
       \/ old = "failed" /\ new = "success"
       \/ old = "other" /\ new \in {"success", "failed"}
       \/ old = "success" /\ new = "reversed"
    /\ new = "abandoned" => provider = "PAYSTACK"

\* The words for it in a reply; "other" is a word no adapter knows, or none.
Words(provider, raw) ==
    {"other"} \cup
    IF provider = "PAYSTACK"
    THEN CASE raw = "pending"  -> {"pending", "ongoing"}
           [] raw = "reversed" -> {"reversed", "refunded"}
           [] OTHER            -> {raw}
    ELSE CASE raw = "pending"  -> {"PENDING"}
           [] raw = "failed"   -> {"FAILED", "EXPIRED", "REJECTED", "TIMEOUT"}
           [] raw = "success"  -> {"SUCCESSFUL"}
           [] raw = "reversed" -> {"REVERSED"}
           [] OTHER            -> {}

-----------------------------------------------------------------------------
(* Opening a transaction *)

\* How an HTTP exchange ends: status 202 or another 2xx with a JSON body, the
\* latter perhaps about another reference; a body that is no JSON or lacks
\* fields; 401 or 403; another status; the timer's abort or a network failure.
Replies == {"202", "2xx", "otherReference", "garbled", "401/403", "refused", "none"}

fetchJson(reply) == reply \in {"202", "2xx", "otherReference"}

fetchVoid(reply) == reply = "202"

\* Whether the provider may have opened the transaction when it replies so: only
\* a request that it did not authenticate certainly had no effect, and only a
\* success that names the reference certainly had one.
MayOpen(reply) ==
    CASE reply \in {"202", "2xx"} -> {TRUE}
      [] reply = "401/403"        -> {FALSE}
      [] OTHER                    -> BOOLEAN

\* MomoAdapter throws before it sends anything unless there is a phone number
\* and getAccessToken gets its token; Paystack needs neither.
Sends(provider, phoned, token) == provider = "MTN_MOMO" => phoned /\ fetchJson(token)

\* MoMo accepts a 202 only; Paystack any success whose reference is ours.
Accepts(provider, reply) ==
    IF provider = "MTN_MOMO" THEN fetchVoid(reply)
    ELSE fetchJson(reply) /\ reply # "otherReference"

\* What initiate may come to: whether it returns the reference, and whether the
\* provider holds a transaction afterwards.
InitiationOutcomes(provider, phoned) ==
    {[initiated |-> FALSE, opened |-> FALSE] :
        token \in {t \in Replies : ~Sends(provider, phoned, t)}}
    \cup UNION {{[initiated |-> Accepts(provider, reply), opened |-> opened] :
                    opened \in MayOpen(reply)} :
                reply \in {s \in Replies : \E t \in Replies : Sends(provider, phoned, t)}}

-----------------------------------------------------------------------------
(* Reading what the provider says *)

VerificationStatuses == {"SUCCESS", "FAILED", "PENDING", "UNKNOWN"}

MutantUnmappedStatus(provider, word) == word

MutantMapStatus(provider, word) ==
    CASE word \in {"success", "pending", "SUCCESSFUL", "PENDING"} -> "SUCCESS"
      [] word \in {"failed", "abandoned", "reversed", "refunded"} -> "FAILED"
      [] OTHER                                                    -> "UNKNOWN"

\* mapStatus of PaystackVerificationAdapter and of MtnMomoVerificationAdapter.
mapPaystackVerification(word) ==
    CASE word = "success"                                         -> "SUCCESS"
      [] word \in {"failed", "abandoned", "reversed", "refunded"} -> "FAILED"
      [] word \in {"pending", "ongoing"}                          -> "PENDING"
      [] OTHER                                                    -> "UNKNOWN"

mapMomoVerification(word) ==
    CASE word = "SUCCESSFUL"                                      -> "SUCCESS"
      [] word \in {"FAILED", "EXPIRED", "REJECTED", "TIMEOUT"}    -> "FAILED"
      [] word = "PENDING"                                         -> "PENDING"
      [] OTHER                                                    -> "UNKNOWN"

mapStatus(provider, word) ==
    IF provider = "PAYSTACK" THEN mapPaystackVerification(word) ELSE mapMomoVerification(word)

\* The transactions an answer may be about: MoMo's is taken for the one that was
\* asked for, Paystack's names its own.
AnswersAbout(provider, asked, known) == IF provider = "MTN_MOMO" THEN {asked} ELSE known

ProviderStatuses == {"PENDING", "SUCCESS", "FAILED", "REVERSED", "REFUNDED"}

\* PaystackAdapter and MomoAdapter, for the payments of orders.
mapPaystackStatus(word) ==
    CASE word = "success"                  -> "SUCCESS"
      [] word \in {"failed", "abandoned"}  -> "FAILED"
      [] word = "reversed"                 -> "REVERSED"
      [] word = "refunded"                 -> "REFUNDED"
      [] OTHER                             -> "PENDING"

mapMomoStatus(word) ==
    CASE word = "SUCCESSFUL"               -> "SUCCESS"
      [] word \in {"FAILED", "REJECTED"}   -> "FAILED"
      [] word = "REVERSED"                 -> "REVERSED"
      [] OTHER                             -> "PENDING"

paymentStatus(provider, word) ==
    IF provider = "PAYSTACK" THEN mapPaystackStatus(word) ELSE mapMomoStatus(word)
=============================================================================
