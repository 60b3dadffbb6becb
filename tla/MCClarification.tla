---------------------------- MODULE MCClarification --------------------------
(* Reports that lack nothing, one, three and six facts: enough for    *)
(* sessions that are resolved in every round, that repeat a question, and   *)
(* that run out of questions.                                               *)
EXTENDS Clarification

CONSTANTS location, image_fallback, time, issue, alamat, waktu, kelurahan

Lists == {<<>>, <<location>>, <<location, time, issue>>,
          <<location, time, issue, alamat, waktu, kelurahan>>}
=============================================================================
