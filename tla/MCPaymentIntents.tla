--------------------------- MODULE MCPaymentIntents ---------------------------
(***************************************************************************)
(* Small instances of PaymentIntents.                                      *)
(***************************************************************************)
EXTENDS PaymentIntents, TLC

CONSTANTS b1, b2, k1, x, m1, m2, i1, h1, h2, h3, h4

Payload(provider, id, hash, ref, supported, signed) ==
    [provider |-> provider, dataId |-> id, payloadHash |-> hash, reference |-> ref,
     supported |-> supported, signed |-> signed]

Request(buyer, key, provider, amount) ==
    [buyer |-> buyer, key |-> key, provider |-> provider, details |-> x,
     amount |-> amount]

\* One client repeating one request.
OneInput == {Request(b1, k1, "PAYSTACK", m1)}

\* One charge event in two encodings, the first of them also with a bad
\* signature: the two encodings share data.id.  And an event without a reference.
OneEvent ==
    {Payload("PAYSTACK", i1, h1, k1, TRUE, TRUE),
     Payload("PAYSTACK", i1, h1, k1, TRUE, FALSE),
     Payload("PAYSTACK", i1, h2, k1, TRUE, TRUE),
     Payload("PAYSTACK", None, h4, None, TRUE, TRUE)}

\* Two events about one charge.
TwoEvents == {Payload("PAYSTACK", None, h, k1, TRUE, TRUE) : h \in {h1, h2}}

\* The key reused for another payload, and by another buyer.
SharedKey ==
    {Request(b1, k1, "PAYSTACK", m1), Request(b1, k1, "MTN_MOMO", m1),
     Request(b2, k1, "PAYSTACK", m1)}

\* An event of either provider, one of which is the wrong one, and an unsupported
\* event.
ManyEvents ==
    {Payload("PAYSTACK", i1, h1, k1, TRUE, TRUE),
     Payload("MTN_MOMO", None, h2, k1, TRUE, TRUE),
     Payload("PAYSTACK", None, h3, k1, FALSE, TRUE)}

Symmetric == Permutations(Requests) \cup Permutations(Deliveries)
=============================================================================
