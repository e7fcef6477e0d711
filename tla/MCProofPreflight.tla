--------------------------- MODULE MCProofPreflight ---------------------------
(* A sound payload, and one for another constraint whose wrong lengths make  *)
(* the checks of the image and of one spend account skip.  A competitive     *)
(* task with a deadline, one without whose type is decoded as an object (but *)
(* for that check it is a plain task), and a public one.                     *)
EXTENDS ProofPreflight

MCPayload == {{},
              {"constraint_hash_match", "image_id_length", "nullifier_seed_length"}}
MCTerms == {[private |-> TRUE, deadline |-> 1,
             taskType |-> [as |-> "number", value |-> Competitive]],
            [private |-> TRUE, deadline |-> 0,
             taskType |-> [as |-> "object", value |-> Competitive]],
            [private |-> FALSE, deadline |-> 0,
             taskType |-> [as |-> "number", value |-> 0]]}
=============================================================================
