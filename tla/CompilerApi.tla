------------------------------ MODULE CompilerApi ------------------------------
(***************************************************************************)
(* Module lamia.capi over the compiler: each call of the C API makes a      *)
(* compiler of its own with the default options.  The host makes the calls  *)
(* of a script: on one Compiler object ("object"), for a string it frees    *)
(* ("string"), into its buffer of call.size characters ("buffer"), or       *)
(* lamia::shutdown() ("shutdown"), which clears the flag of the core and    *)
(* leaves that of the API.                                                  *)
(***************************************************************************)
EXTENDS Layouts

CONSTANT MaxSize  \* the largest buffer, and what the host put behind it

ASSUME SizeAssumption ==
  /\ MaxSize \in Nat
  /\ \A calls \in Scripts : \A c \in ToSet(calls) : c.size \in 0 .. MaxSize

VARIABLES
  coreUp,  \* lamia::g_lamia_initialized
  apiUp,   \* g_initialized
  hostAst, \* ast_ of the host's object while the compiler in use is the API's
  buffer,  \* the host's memory: out_buf is its first call.size cells
  held,    \* strings the host has to free
  answer   \* what the last call returned

hostVars == <<coreUp, apiUp, hostAst, buffer, held, answer>>
apiVars == <<compilerVars, hostVars>>

Untouched == [i \in 1 .. MaxSize + 1 |-> "old"]
Answers == {"none", "null", "string", "zero", "one"}

ApiInit ==
  /\ CompilerInit
  /\ coreUp = FALSE /\ apiUp = FALSE
  /\ hostAst = <<>> /\ buffer = Untouched /\ held = 0 /\ answer = "none"

\* A call that does not compile is over at once.
Skip ==
  /\ phase = "idle"
  /\ script' = Tail(script)
  /\ UNCHANGED <<strict, phase, at, tokens, parserVars, resultVars>>

ApiRefuse ==
  /\ script # <<>> /\ Head(script).via = "buffer" /\ Head(script).size = 0
  /\ Skip /\ answer' = "zero"
  /\ UNCHANGED <<coreUp, apiUp, hostAst, buffer, held>>

\* lamia::shutdown(); g_initialized does not follow.
Shutdown ==
  /\ script # <<>> /\ Head(script).via = "shutdown"
  /\ Skip /\ coreUp' = FALSE
  /\ UNCHANGED <<apiUp, hostAst, buffer, held, answer>>

ApiCompile ==
  /\ script # <<>> /\ Head(script).via \in {"string", "buffer"}
  /\ Head(script).via = "buffer" => Head(script).size > 0
  /\ Begin(FALSE)
  /\ coreUp' = (apiUp => coreUp) /\ apiUp' = TRUE
  /\ hostAst' = ast /\ ast' = <<>>
  /\ buffer' = Untouched
  /\ UNCHANGED <<held, answer>>

ApiFinish ==
  /\ phase = "returning" /\ Finish
  /\ ast' = hostAst
  /\ UNCHANGED <<coreUp, apiUp, hostAst>>

\* malloc may fail.
ReturnString ==
  /\ phase = "returning" /\ Head(script).via = "string"
  /\ \/ result.ok /\ answer' = "string" /\ held' = held + 1
     \/ answer' = "null" /\ UNCHANGED held
  /\ ApiFinish
  /\ UNCHANGED buffer

Write(text) ==
  [i \in DOMAIN buffer |->
     IF i <= Len(text) THEN text[i] ELSE IF i = Len(text) + 1 THEN "\\0" ELSE buffer[i]]

\* Variant: the terminator is forgotten in the comparison.
ReturnBufferTight ==
  /\ phase = "returning" /\ Head(script).via = "buffer"
  /\ IF result.ok /\ Len(result.page) <= Head(script).size
     THEN answer' = "one" /\ buffer' = Write(result.page)
     ELSE answer' = "zero" /\ UNCHANGED buffer
  /\ ApiFinish
  /\ UNCHANGED held

ReturnBuffer ==
  /\ phase = "returning" /\ Head(script).via = "buffer"
  /\ IF result.ok /\ Len(result.page) < Head(script).size
     THEN answer' = "one" /\ buffer' = Write(result.page)
     ELSE answer' = "zero" /\ UNCHANGED buffer
  /\ ApiFinish
  /\ UNCHANGED held

FreeString ==
  /\ phase = "idle" /\ held > 0
  /\ held' = held - 1
  /\ UNCHANGED <<compilerVars, coreUp, apiUp, hostAst, buffer, answer>>

ApiNext ==
  \/ CompilerNext /\ UNCHANGED hostVars
  \/ ApiRefuse \/ Shutdown \/ ApiCompile
  \/ ReturnString \/ ReturnBuffer \/ FreeString

ApiSpec == ApiInit /\ [][ApiNext]_apiVars

\* The thread that called compile() goes on.
FairApiSpec == ApiSpec /\ WF_compilerVars(Lex \/ Parse)

-----------------------------------------------------------------------------
(* Properties *)

\* lamia_compile_to_html_buf: 1 means that the whole page and its terminator lie
\* within the buffer, 0 that they would not; what lies behind the buffer, and all
\* of it after a 0, is untouched.
BufferHoldsPage ==
  [][phase' = "idle" /\ phase = "returning" /\ Head(script).via = "buffer" =>
       LET done == log'[Len(log')]
           page == done.result.page
           fits == Len(page) + 1 <= done.call.size
       IN /\ answer' = "one" <=> fits
          /\ fits => /\ SubSeq(buffer', 1, Len(page)) = page
                     /\ buffer'[Len(page) + 1] = "\\0"
          /\ \A i \in 1 .. MaxSize + 1 :
               i > (IF fits THEN done.call.size ELSE 0) => buffer'[i] = "old"]_apiVars
=============================================================================
