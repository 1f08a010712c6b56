------------------------------ MODULE AiService ------------------------------
(***************************************************************************)
(* What the API answers and what the web page makes of it, layer by layer: *)
(* the upload's checks (routers/files.py), the model call and the mapping  *)
(* of what goes wrong in it (services/gemini/client.py), the second        *)
(* attempt at a structured answer (services/ai/service.py), the error      *)
(* envelope (core/errors.py), and the client's reading of it (lib/api.ts,  *)
(* lib/errors.ts).  An error's message and its request id are left out.    *)
(***************************************************************************)
EXTENDS Naturals, Sequences, FiniteSets

\* What the checks tell apart in a file.
FileKinds == {"fine", "unsupported", "huge", "empty", "flagged", "corrupt"}

\* What they tell apart in the text of an input.
TextKinds == {"none", "fine", "flagged"}

\* What became of one call of the model: an answer, or what its SDK or the reply says.  "400" is any
\* other refusal of the request ("unsupported schema, too many tokens..."), "withheld" an answer the
\* provider stopped (FinishReason in _BLOCKED) before it had any text.
ModelFaults == {"429", "401", "400", "500", "slow", "crash"}
ModelReplies == {"fits", "misfits", "malformed", "nothing", "withheld"}

-----------------------------------------------------------------------------
(* The API's answers. *)

Answer(status, code) == [status |-> status, code |-> code]

\* The AppErrors the workflow can meet, by what raises them.
AppErrorOf == [
    unsupported |-> Answer(415, "unsupported_media_type"),
    huge        |-> Answer(413, "payload_too_large"),
    empty       |-> Answer(422, "empty_file"),
    gone        |-> Answer(404, "not_found"),
    unset       |-> Answer(503, "ai_unavailable"),
    limited     |-> Answer(429, "ai_rate_limited"),
    rejected    |-> Answer(422, "ai_bad_request"),
    upstream    |-> Answer(502, "ai_upstream_error"),
    slow        |-> Answer(504, "ai_timeout"),
    blocked     |-> Answer(422, "ai_blocked"),
    invalid     |-> Answer(502, "ai_invalid_output"),
    internal    |-> Answer(500, "internal_error")]

\* upload: type, size and emptiness, in that order; anything else is stored.
UploadCheck(kind) == IF kind \in {"unsupported", "huge", "empty"} THEN kind ELSE "stored"

\* Mutant of Translated: a 4xx of the provider is a provider error.
TranslatedAsUpstream(fault) ==
    CASE fault = "429" -> "limited" [] fault = "401" -> "unset" [] fault = "slow" -> "slow"
      [] OTHER -> "upstream"

\* _translate_errors.
Translated(fault) ==
    CASE fault = "429" -> "limited" [] fault = "401" -> "unset" [] fault = "slow" -> "slow"
      [] fault = "400" -> "rejected" [] OTHER -> "upstream"

\* What one call of generate_json ends with for the text and the files it is given, when the provider
\* does what it does now: a corrupt file fails the request, and a flagged part of the prompt blocks
\* it, before there is an answer to be stopped or to be read.
JsonOutcome(kinds, now) ==
    IF now \in ModelFaults THEN Translated(now)
    ELSE IF "corrupt" \in kinds THEN Translated("400")
    ELSE IF "flagged" \in kinds \/ now = "withheld" THEN "blocked"
    ELSE IF now = "fits" THEN "ok" ELSE "invalid"

\* structured: a second attempt, only after an answer that does not fit.
Structured(kinds, first, second) ==
    IF JsonOutcome(kinds, first) = "invalid" THEN JsonOutcome(kinds, second)
    ELSE JsonOutcome(kinds, first)

-----------------------------------------------------------------------------
(* The client's reading. *)

\* BY_CODE: whether "Try again" is offered, for the codes the table has.
RetryableByCode == [
    ai_unavailable |-> TRUE, ai_rate_limited |-> TRUE, ai_timeout |-> TRUE, ai_upstream_error |-> TRUE,
    ai_invalid_output |-> TRUE, ai_blocked |-> FALSE, ai_bad_request |-> FALSE,
    payload_too_large |-> FALSE, unsupported_media_type |-> FALSE]

\* toUserError for an ApiError: the table, else the status.  A body that is no envelope
\* ("http_error", what a proxy answers) counts as unreachable from 500 on.
Retryable(answer) ==
    IF answer.code \in DOMAIN RetryableByCode THEN RetryableByCode[answer.code]
    ELSE answer.status >= 500 \/ answer.status = 429

\* What a request ends with at the client, "ok" or a cause, and whether it may be retried: a request
\* that gets no answer, or the proxy's own, is unreachable.
Retries(cause) == cause = "unreachable" \/ Retryable(AppErrorOf[cause])
==============================================================================
