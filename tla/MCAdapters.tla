------------------------------- MODULE MCAdapters -------------------------------
(***************************************************************************)
(* Every provider adapter in front of the execution gate.  A run starts    *)
(* with any of the adapters; they share nothing but the guard.             *)
(***************************************************************************)
EXTENDS OpenRouterAdapter, OpenAIAdapter, AnthropicAdapter, AiSdkAdapter, GeminiAdapter

CONSTANT Providers  \* the adapters to check

\* Two tool calls of choice 0 and one of choice 1; the choices themselves, for
\* legacy function calls; and one call that is named by an id.
Coordinates ==
  { << 0, 0 >>, << 0, 1 >>, << 1, 0 >>, << 0 >>, << 1 >> }
    \cup { << 0, id >> : id \in ToolCallIds }

\* One block, and one call of the AI SDK, have input.
OneInput == { << 0, 0 >> }

\* The bounds let a call run and leave an event over for a disorder: to run takes five
\* events of Anthropic and three of the others.  For Gemini, disorder is all there is.
RawEventBounds ==
  [ p \in Providers |-> CASE p = "anthropic" -> 6 [] p = "gemini" -> 3 [] OTHER -> 4 ]

NewAdapters ==
  { NewCompatible, NewOpenRouter, NewOpenAI("chat"), NewOpenAI("responses"),
    NewAnthropic, NewAiSdk, NewGemini }

AdaptersInit ==
  /\ GuardInit
  /\ adapter \in { a \in NewAdapters : a.provider \in Providers }

AdaptersNext ==
  \/ GuardNext
  \/ CompatibleNext
  \/ OpenRouterNext
  \/ OpenAINext
  \/ AnthropicNext
  \/ SdkNext
  \/ GeminiNext

AdaptersSpec == AdaptersInit /\ [][AdaptersNext]_guardVars
================================================================================
