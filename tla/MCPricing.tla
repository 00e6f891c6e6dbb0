----------------------------- MODULE MCPricing -----------------------------
(* An instance of Pricing for TLC. *)
EXTENDS Pricing

P(input, read, write, reasoning, output, byOutput) ==
  [input |-> input, read |-> read, write |-> write, reasoning |-> reasoning,
   output |-> output, byOutput |-> byOutput]

\* Tiers out of order, the last of them priced like the base, and modes; free.
MCRates ==
  {[prices |-> P(2, 1, 3, 0, 4, TRUE),
    tiers |-> {[over |-> 4, prices |-> P(2, 1, 3, 0, 4, TRUE)],
               [over |-> 2, prices |-> P(5, 1, 3, 0, 7, TRUE)]},
    modes |-> <<[service |-> "auto", prices |-> P(1, 1, 1, 1, 1, FALSE)],
                [service |-> "fast", prices |-> P(6, 2, 4, 3, 7, FALSE)]>>],
   [prices |-> P(0, 0, 0, 0, 0, TRUE), tiers |-> {}, modes |-> <<>>]}

\* Reasoning has its own price; some prices are left out, one tier has no size,
\* one mode no service tier.
Q(input, read, write, reasoning, output) ==
  [input |-> input, read |-> read, write |-> write, reasoning |-> reasoning, output |-> output]
MCCatalog ==
  {[prices |-> Q(3, Absent, 2, 1, 4),
    tiers |-> {[over |-> 0, prices |-> Q(9, 9, 9, 9, 9)],
               [over |-> 4, prices |-> Q(Absent, 1, Absent, 2, 5)]},
    legacy |-> Q(4, Absent, Absent, Absent, 6),
    modes |-> <<[service |-> "", prices |-> Q(9, 9, 9, 9, 9)]>>]}

O(provider, executor, model, convention) ==
  [provider |-> provider, executor |-> executor, model |-> model, convention |-> convention]
MCOrigins ==
  {O("openai", "", "claude", "subset"), O("claude", "compat", "gemini", "subset"),
   O("", "", "claude", "independent"), O("gemini", "", "openai", "separate"),
   O("other", "", "openai", "unknown")}

MCUses ==
  [fresh : 0 .. 2, read : 0 .. 1, write : 0 .. 1, reasoning : 0 .. 1, visible : {0, 2}]

MCHidings == {{}, {"total"}, {"input"}, {"output"}, {"reasoning"}, {"input", "output"}}

C(o, service, generate, input, output, reasoning, cached, read, write, total) ==
  [origin |-> o, service |-> service, generate |-> generate, input |-> input, output |-> output,
   reasoning |-> reasoning, cached |-> cached, read |-> read, write |-> write, total |-> total]
MCOdd ==
  {C(o, "", TRUE, input, output, reasoning, 3, read, write, total) :
     o \in MCOrigins, input \in {-1, 2, 30}, output \in {-1, 2}, reasoning \in {0, 3},
     read \in {0, 4}, write \in {-1, 30}, total \in {-1, 5, 30}}
  \cup {C(o, "", FALSE, 2, 1, 1, 0, 1, 0, 4) : o \in MCOrigins}
=============================================================================
