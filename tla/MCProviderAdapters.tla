------------------------- MODULE MCProviderAdapters -------------------------
(* An instance of ProviderAdapters for TLC. *)
EXTENDS ProviderAdapters, TLC

CONSTANTS s1, g1, f1, h1

MCSdkErrors ==
  {[class |-> c, status |-> 0, code |-> "none"] :
     c \in {"APITimeoutError", "APIConnectionError", "OpenAIError"}}
  \cup {[class |-> "APIStatusError", status |-> s, code |-> "none"] :
          s \in {400, 409, 499, 500}}
  \cup {[class |-> "RateLimitError", status |-> 429, code |-> c] :
          c \in {"none", "insufficient_quota"}}

MCResponseCodes == {"none", "server_error"}
=============================================================================
