----------------------------- MODULE ModelStream -----------------------------
(***************************************************************************)
(* One call of a language model as the review agents make it: the retries  *)
(* of crates/review-agent/src/provider_retry.rs, the streaming adapters    *)
(* deepseek.rs, openai.rs and anthropic.rs over sse.rs, the events of      *)
(* crates/agent-runtime, and the frontend that folds them (agentStream.ts).*)
(*                                                                         *)
(* Text is a sequence of pieces, as they are cut by the service:           *)
(*   "t"  text inside a line, the rest of an ordinary tag behind a bracket *)
(*   "n"  the end of a line; at the start of one, a blank line             *)
(*   "<"  an opening bracket whose tag is not complete yet                 *)
(*   "d"  the rest of a tag of DeepSeek's tool protocol                    *)
(*   "/"  the tag that closes the protocol's block                         *)
(* A tool call has an id (its index here), a name the request knows or     *)
(* does not, and arguments: "none" yet, a "part" of a JSON object, "full". *)
(***************************************************************************)
EXTENDS Integers, Sequences, FiniteSets, SequencesExt

CONSTANTS Provider,      \* the adapters considered
          MaxAttempts,   \* RetryPolicy::max_attempts
          MaxPieces      \* bound on the pieces of one stream

ASSUME StreamAssumption ==
  /\ Provider \subseteq {"deepseek", "openai", "anthropic"}
  /\ MaxAttempts \in Nat \ {0} /\ MaxPieces \in Nat

VARIABLES provider, recovers,   \* the model, and whether the caller is the history agent
          pc, attempt, invalid_retry_used, cancelled,
          attempts,             \* telemetry.provider_attempts
          stream,               \* what the adapter has collected of this attempt
          result,               \* what the call returned
          shown                 \* the attempts the user sees

vars == <<provider, recovers, pc, attempt, invalid_retry_used, cancelled,
          attempts, stream, result, shown>>
setting == <<provider, recovers>>

-----------------------------------------------------------------------------
(* What the user sees: reduceAgentEvent *)

\* The clock gives every event the next sequence number, and events arrive in
\* that order: the attempt an event is for is the last one.  Of the attempts
\* before it only the status is read.
NothingShown == [status |-> <<>>, text |-> <<>>, tools |-> {}]
SetStatus(s, status) == [s EXCEPT !.status[Len(s.status)] = status]
reduceAgentEvent(s, event) ==
  CASE event.kind = "model_attempt_started"    -> [NothingShown EXCEPT !.status = Append(s.status, "starting")]
    [] event.kind = "model_response_started"   -> SetStatus(s, "streaming")
    [] event.kind = "output_text_delta"        -> SetStatus([s EXCEPT !.text = @ \o event.delta], "streaming")
    [] event.kind = "tool_call_started"        -> SetStatus([s EXCEPT !.tools = @ \cup {event.call}], "streaming")
    [] event.kind = "model_response_completed" -> SetStatus(s, "completed")
    [] event.kind = "model_attempt_failed"     -> SetStatus(s, IF event.will_retry THEN "retrying" ELSE "failed")

Event(kind) == [kind |-> kind]
TextDelta(delta) == [kind |-> "output_text_delta", delta |-> delta]
ToolStarted(call) == [kind |-> "tool_call_started", call |-> call]
AttemptFailed(retry) == [kind |-> "model_attempt_failed", will_retry |-> retry]
\* A piece that is held back emits nothing.
EmitText(s, delta) == IF delta = <<>> THEN s ELSE reduceAgentEvent(s, TextDelta(delta))

-----------------------------------------------------------------------------
(* DeepSeek's tool protocol in the text *)

EmptyStream == [started |-> FALSE, content |-> <<>>, mode |-> "LineStart", pending |-> <<>>,
                calls |-> <<>>, finish |-> "none"]

\* StreamedContentFilter.  At the start of a line, blanks are held back, and a
\* bracket until its tag is known or its line ends.  From a tag of the protocol
\* on nothing is shown, nor what was held back before it.
Opened(held) == held # <<>> /\ Last(held) = "<"
push(s, piece) ==
  LET all == Append(s.pending, piece)
      after == IF piece = "n" THEN "LineStart" ELSE "Text"
  IN  CASE s.mode = "Protocol" -> [out |-> <<>>, pending |-> <<>>, mode |-> "Protocol"]
        [] s.mode = "Text"     -> [out |-> <<piece>>, pending |-> <<>>, mode |-> after]
        [] s.mode = "LineStart" /\ (piece = "<" \/ (piece = "n" /\ ~Opened(s.pending))) ->
             [out |-> <<>>, pending |-> all, mode |-> "LineStart"]
        [] s.mode = "LineStart" /\ piece = "d" /\ Opened(s.pending) ->
             [out |-> <<>>, pending |-> <<>>, mode |-> "Protocol"]
        [] OTHER               -> [out |-> all, pending |-> <<>>, mode |-> after]
\* Mutant: what is held back at the end is dropped.
FinishDrops(s) == <<>>
finish(s) == IF s.mode = "Protocol" THEN <<>> ELSE s.pending

Blank(text) == \A i \in DOMAIN text : text[i] = "n"
\* The tags of the protocol that open a line.
ProtocolAt(text) ==
  {i \in DOMAIN text : /\ i < Len(text) /\ text[i] = "<" /\ text[i + 1] = "d"
                       /\ i = 1 \/ text[i - 1] = "n"}
\* normalize_dsml_tags: a bracket without its ">" runs on to the next one, and a
\* tag in between is read as a part of it.
Closes(text, k) == text[k] \in {"d", "/"} \/ (text[k] = "t" /\ text[k - 1] = "<")
Swallowed(text, i) ==
  \E j \in 1 .. i - 1 : text[j] = "<" /\ \A k \in j + 1 .. i - 1 : ~Closes(text, k)
dsml_protocol_suffix(text) == {i \in ProtocolAt(text) : ~Swallowed(text, i)}
looks_like_dsml_protocol(text) == \E i \in 1 .. Len(text) - 1 : text[i] = "<" /\ text[i + 1] = "d"
\* Mutant: an open block is executed.
OpenBlock(text, i) == TRUE
\* A block from piece i on that is closed, with nothing but blanks after it.
Block(text, i) ==
  /\ i + 2 <= Len(text) /\ text[i + 2] = "/"
  /\ \A k \in i + 3 .. Len(text) : text[k] = "n"
parse_dsml_tool_calls(text) ==
  LET tags == dsml_protocol_suffix(text)
  IN  IF tags = {} THEN IF looks_like_dsml_protocol(text) THEN "invalid" ELSE "text"
      ELSE IF Block(text, CHOOSE i \in tags : \A j \in tags : i <= j) THEN "calls" ELSE "invalid"

-----------------------------------------------------------------------------
(* The end of an attempt *)

Ok(kind, text, calls) == [kind |-> kind, text |-> text, calls |-> calls]
Err(kind) == [kind |-> kind, text |-> <<>>, calls |-> <<>>]
\* Mutant: every transient error is retried (is_transient).
RetryTransient(error) == error \in {"RateLimited", "Network", "StreamInterrupted"}
is_safe_to_automatically_retry(error) == error \in {"RateLimited", "Network"}
\* The history agent asks again, once, after an answer it could not read.
is_retryable(error) ==
  \/ is_safe_to_automatically_retry(error)
  \/ recovers /\ ~invalid_retry_used /\ error = "InvalidResponse"

Return(r) == pc' = "end" /\ result' = r /\ UNCHANGED <<attempt, invalid_retry_used>>
Settle(error, announced, retry) ==
  /\ shown' = reduceAgentEvent(shown, AttemptFailed(announced))
  /\ IF retry
     THEN /\ pc' = "delay"
          /\ invalid_retry_used' = (invalid_retry_used \/ ~is_safe_to_automatically_retry(error))
          /\ UNCHANGED <<attempt, result>>
     ELSE Return(Err(error))
  /\ UNCHANGED <<attempts, cancelled, setting>>
Fail(error) ==
  LET retry == attempt < MaxAttempts /\ is_retryable(error) IN Settle(error, retry, retry)

\* restore_response: a name of the request; arguments that are an object.  A
\* call of Anthropic starts out with an empty one.
Whole(args) == args = "full" \/ (provider = "anthropic" /\ args = "none")
Restorable(call) == call.known /\ Whole(call.args)
ParsedCalls(s) ==
  IF \A c \in Range(s.calls) : Restorable(c) THEN Ok("tools", <<>>, s.calls) ELSE Err("InvalidResponse")
\* DeepSeek's answer without calls may hold them in its text; a block that
\* calls what the request does not know ends like ServiceFails.
ParsedText(s) ==
  CASE parse_dsml_tool_calls(s.content) = "calls" -> Ok("tools", s.content, <<>>)
    [] parse_dsml_tool_calls(s.content) = "text"  -> Ok("final", s.content, <<>>)
    [] OTHER -> Err("InvalidResponse")
\* Why the answer ends.  OpenAI's other reasons are events of their own
\* (ServiceFails).
Reasons ==
  {"stop", "length"} \cup
  (CASE provider = "deepseek"  -> {"content_filter", "insufficient_system_resource"}
     [] provider = "anthropic" -> {"refusal"}
     [] OTHER                  -> {})
\* An answer cut off is no answer; calls come before text.
parse_response(s, reason) ==
  CASE reason = "length" -> Err("OutputTruncated")
    [] reason \in {"content_filter", "insufficient_system_resource"} -> Err("Network")
    [] reason = "refusal" -> Err("InvalidResponse")
    [] OTHER ->
         IF s.calls # <<>> THEN ParsedCalls(s)
         ELSE IF Blank(s.content) THEN Err("InvalidResponse")
         ELSE IF provider = "deepseek" THEN ParsedText(s) ELSE Ok("final", s.content, <<>>)
\* OpenAI repeats the whole answer in its last event, and that is what is read:
\* what was streamed, or something else.
Answers(s) ==
  IF provider # "openai" THEN {s}
  ELSE {[s EXCEPT !.content = text, !.calls = calls] :
          text \in {s.content, <<>>, <<"t">>},
          calls \in {s.calls, <<>>, <<[known |-> TRUE, args |-> "full"]>>}}

-----------------------------------------------------------------------------
(* Retries *)

Cancel ==
  /\ pc # "end" /\ ~cancelled
  /\ cancelled' = TRUE
  /\ UNCHANGED <<setting, pc, attempt, invalid_retry_used, attempts, stream, result, shown>>

\* Every wait polls the flag; the polls are ten milliseconds apart.
SeeCancel ==
  /\ pc # "end" /\ cancelled
  /\ Return(Err("Cancelled"))
  /\ UNCHANGED <<setting, cancelled, attempts, stream, shown>>

StartAttempt ==
  /\ pc = "check" /\ ~cancelled
  /\ attempts' = attempts + 1
  /\ shown' = reduceAgentEvent(shown, Event("model_attempt_started"))
  /\ stream' = EmptyStream
  /\ pc' = "send"
  /\ UNCHANGED <<setting, attempt, invalid_retry_used, cancelled, result>>

WakeUp ==
  /\ pc = "delay"
  /\ attempt' = attempt + 1 /\ pc' = "check"
  /\ UNCHANGED <<setting, invalid_retry_used, cancelled, attempts, stream, result, shown>>

-----------------------------------------------------------------------------
(* The service answers *)

StatusErrors ==
  {"AuthFailed", "RateLimited", "Network"} \cup
  (IF provider = "deepseek" THEN {"QuotaExceeded", "InvalidRequest"} ELSE {"InvalidResponse"})
Accepted ==
  /\ pc = "send" /\ pc' = "stream"
  /\ UNCHANGED <<setting, attempt, invalid_retry_used, cancelled, attempts, stream, result, shown>>
map_status ==
  /\ pc = "send"
  /\ \E error \in StatusErrors : Fail(error)
  /\ UNCHANGED stream
SendTimeout == pc = "send" /\ Fail("Network") /\ UNCHANGED stream

Streaming == pc = "stream" /\ stream.started
\* A call counts as two pieces: its name and its arguments.
Pieces(s) == Len(s.content) + 2 * Len(s.calls)
ResponseStarted ==
  /\ pc = "stream" /\ ~stream.started
  /\ stream' = [stream EXCEPT !.started = TRUE]
  /\ shown' = reduceAgentEvent(shown, Event("model_response_started"))
  /\ UNCHANGED <<setting, pc, attempt, invalid_retry_used, cancelled, attempts, result>>

\* "d" and "/" continue a tag; only DeepSeek's model writes them.
NextPieces(content) ==
  LET last == IF content = <<>> THEN "n" ELSE Last(content) IN
  {"t", "n"} \cup (IF provider # "deepseek" THEN {}
                   ELSE CASE last = "<" -> {"d"} [] last = "d" -> {"/"} [] OTHER -> {"<"})
OutputText ==
  /\ Streaming /\ Pieces(stream) < MaxPieces
  /\ \E piece \in NextPieces(stream.content) :
       LET f == push(stream, piece)
           s == [stream EXCEPT !.content = Append(@, piece)]
       IN  IF provider = "deepseek"
           THEN /\ stream' = [s EXCEPT !.mode = f.mode, !.pending = f.pending]
                /\ shown' = EmitText(shown, f.out)
           ELSE stream' = s /\ shown' = EmitText(shown, <<piece>>)
  /\ UNCHANGED <<setting, pc, attempt, invalid_retry_used, cancelled, attempts, result>>

\* Calls and content blocks come in the order of their index.
ToolCallStarted ==
  /\ Streaming /\ Pieces(stream) + 1 < MaxPieces
  /\ \E known \in BOOLEAN :
       /\ stream' = [stream EXCEPT !.calls = Append(@, [known |-> known, args |-> "none"])]
       /\ shown' = IF known THEN reduceAgentEvent(shown, ToolStarted(Len(stream.calls) + 1)) ELSE shown
  /\ UNCHANGED <<setting, pc, attempt, invalid_retry_used, cancelled, attempts, result>>
ToolArgumentsDelta ==
  /\ Streaming /\ stream.calls # <<>>
  /\ LET n == Len(stream.calls) IN
     /\ stream.calls[n].args # "full"
     /\ \E args \in {"part", "full"} :
          /\ args # stream.calls[n].args
          /\ stream' = [stream EXCEPT !.calls[n].args = args]
  /\ UNCHANGED <<setting, pc, attempt, invalid_retry_used, cancelled, attempts, result, shown>>

\* A terminal event.  What was held back is text after all.
Completed ==
  /\ Streaming
  /\ \E reason \in Reasons, answer \in Answers(stream) :
       LET r == parse_response(answer, reason)
           flushed == IF r.kind = "final" THEN EmitText(shown, finish(stream)) ELSE shown
       IN  /\ stream' = [stream EXCEPT !.finish = reason]
           /\ IF r.kind \in {"final", "tools"}
              THEN /\ shown' = reduceAgentEvent(flushed, Event("model_response_completed"))
                   /\ Return(IF cancelled THEN Err("Cancelled") ELSE r)
                   /\ UNCHANGED <<attempts, cancelled, setting>>
              ELSE Fail(r.kind)

\* The stream breaks its protocol, ends early, or reports an error itself.
ServiceFails ==
  /\ pc = "stream"
  /\ \/ Fail("InvalidResponse")
     \/ provider = "anthropic" /\ stream.started /\ Fail("Network")    \* overloaded_error
  /\ UNCHANGED stream
\* The connection is lost or stays silent for the read timeout.
\* Mutant: no timeout once the answer has begun.
ReadFailsEarly == pc = "stream" /\ ~stream.started /\ Fail("Network") /\ UNCHANGED stream
ReadFails ==
  /\ pc = "stream"
  /\ Fail(IF provider = "deepseek" /\ stream.started THEN "StreamInterrupted" ELSE "Network")
  /\ UNCHANGED stream

-----------------------------------------------------------------------------
Init ==
  /\ provider \in Provider /\ recovers \in BOOLEAN
  /\ pc = "check" /\ attempt = 1 /\ attempts = 0
  /\ invalid_retry_used = FALSE /\ cancelled = FALSE
  /\ stream = EmptyStream /\ result = Err("none") /\ shown = NothingShown

Service ==
  \/ Accepted \/ map_status \/ ResponseStarted \/ OutputText \/ ToolCallStarted
  \/ ToolArgumentsDelta \/ Completed \/ ServiceFails
Timeout == SendTimeout \/ ReadFails
Retry == StartAttempt \/ WakeUp \/ SeeCancel
Next == Cancel \/ Retry \/ Service \/ Timeout

\* Nothing is assumed of the service: it may stay silent for ever.  Waits
\* have a timeout, and the call's own steps are not delayed for ever.
Spec == Init /\ [][Next]_vars /\ WF_vars(Retry) /\ WF_vars(Timeout)

-----------------------------------------------------------------------------
(* Properties *)

\* OpenAI's last event repeats what was streamed.  Nothing makes it: where it
\* does not, the answer is not what the user saw come in.
AnsweredAsStreamed ==
  provider = "openai" =>
    /\ result.calls = stream.calls
    /\ result.kind = "final" => result.text = stream.content

\* The draft a user read while it was streamed is the answer the agent got:
\* nothing of an earlier attempt, nothing held back, no tool (agentStream.ts,
\* latestAgentAnswerDraft; deepseek.rs, StreamedContentFilter).  OpenAI's answer
\* has to be what it streamed.
DraftIsAnswer ==
  result.kind = "final" /\ AnsweredAsStreamed =>
    shown.text = result.text /\ shown.tools = {} /\ Last(shown.status) = "completed"

\* Calls reach the agent whole and known, and those the service announced are
\* on screen.  Calls found in the text end it with their closing tag, and what
\* was shown as text is all the model wrote before the first line that opens
\* with a tag of the protocol, but for blank lines right before it.
CallsAreWhole ==
  result.kind = "tools" =>
    /\ \A c \in Range(result.calls) : c.known /\ Whole(c.args)
    /\ AnsweredAsStreamed => shown.tools = DOMAIN result.calls
    /\ result.calls = <<>> =>
         /\ \E end \in DOMAIN result.text :
               result.text[end] = "/" /\ \A i \in end + 1 .. Len(result.text) : result.text[i] = "n"
         /\ \E first \in ProtocolAt(result.text) :
               /\ \A i \in ProtocolAt(result.text) : first <= i
               /\ Len(shown.text) < first
               /\ \A i \in 1 .. first - 1 :
                     IF i <= Len(shown.text) THEN result.text[i] = shown.text[i] ELSE result.text[i] = "n"

\* An answer DeepSeek has begun to send, and may have billed, is not asked for
\* again, except when the service itself ended it, for its content filter or
\* for lack of resources, or, once, when the history agent could not read it.
NoSecondBill ==
  [][ provider = "deepseek" /\ pc # "delay" /\ pc' = "delay" /\ stream.started
        => \/ stream'.finish \in {"content_filter", "insufficient_system_resource"}
           \/ recovers /\ ~invalid_retry_used /\ invalid_retry_used' ]_vars

\* The call returns, whatever the service does.
CallEnds == <>(pc = "end")
=============================================================================
