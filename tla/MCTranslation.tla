--------------------------- MODULE MCTranslation ---------------------------
(* What is translated between client, provider and chat, side by side: a    *)
(* behaviour is a behaviour of one translation, the others stay as they     *)
(* began.  Sharing a run costs the sum of their states, not the product.    *)
EXTENDS StreamTranslation, ResponsesAssembly, NativeToolStream, NativeArguments,
        RequestPolicies, ToolNames, ToolSchemas, ProviderChoices, SnapshotRestore,
        TurnTranscript, TLC

CONSTANTS c1, c2, hosted, local

MCToolKind == 0 :> "plain" @@ 1 :> "Task" @@ 2 :> "aliased"

MCSchemaType == [p |-> "string", q |-> "array", o |-> "object"]

(* The chunks of an answer: thinking, text, a thought in its text or a tool *)
(* call in pieces, details of reasoning, and chunks with several of them.   *)
Chunk(r, d, c, calls, f) ==
    [reasoning |-> r, details |-> d, content |-> c, calls |-> calls, finish |-> f]
Call(i, n, a) == [index |-> i, named |-> n, args |-> a]
MCChunks ==
    {Chunk("some", <<>>, "none", <<>>, FALSE), Chunk("none", <<>>, "none", <<>>, TRUE),
     Chunk("none", <<"encrypted">>, "none", <<>>, FALSE)}
    \union {Chunk("none", <<>>, c, <<>>, FALSE) :
               c \in {"text", "baretool", "heldthought", "heldtext", "heldtool"}}
    \union {Chunk("none", <<>>, "none", <<Call(i, n, 1)>>, FALSE) :
               i \in ToolIndexes, n \in BOOLEAN}
    \union {Chunk("some", <<>>, "tool", <<Call(0, TRUE, 2), Call(1, TRUE, 0)>>, TRUE),
            Chunk("some", <<"text", "encrypted", "field">>, "thought", <<Call(2, FALSE, 0)>>, FALSE),
            Chunk("empty", <<"text">>, "heldtool", <<>>, TRUE)}

(* Updates of the Admin UI: one key or both, a masked secret, a value that  *)
(* does not validate.                                                       *)
MCUpdates ==
    {[token |-> "new"], [token |-> Mask], [policy |-> "new"], [policy |-> "bad"],
     [token |-> "new", policy |-> "new"]}

MCProviderOrder == <<hosted, local>>
MCLists == {<<>>, [m |-> "cannot"], [m |-> "can", n |-> "unknown"]}
MCSettings ==
    {[usable |-> {hosted}, refs |-> <<<<hosted, "m">>>>],
     [usable |-> {hosted, local}, refs |-> <<<<local, "m">>, <<hosted, "m">>>>],
     [usable |-> {local}, refs |-> <<<<hosted, "m">>>>]}

Translations ==
    {"stream", "assembly", "native", "arguments", "conversion", "policies", "reasoning",
     "names", "schemas", "failure", "pool", "restore", "turn", "config", "catalog"}

translationVars ==
    <<part, streamVars, assemblyVars, nativeVars, argumentVars, policyVars, reasoningVars,
      toolNameVars, schemaVars, failureVars, poolVars, restoreVars, turnVars,
      configVars, catalogVars>>

TranslationInit ==
    /\ part \in Translations
    /\ StreamInit /\ (part # "stream" => outputReasoning)
    /\ AssemblyInit
    /\ IF part = "native" THEN NativeInit
       ELSE NativeInit /\ wrote = [f \in Fields |-> <<>>]
    /\ IF part = "arguments" THEN ArgumentsInit ELSE tokens = <<>> /\ parsed = Unread
    /\ IF part = "conversion"
       THEN /\ ConversionInit /\ adapting = "mistral" /\ thinks = TRUE /\ prepared = FALSE
            /\ original = <<>> /\ signatures = <<>> /\ body_messages = <<>> /\ reshaped = FALSE
       ELSE PolicyInit /\ (part # "policies" => adapting = "mistral" /\ thinks)
    /\ ToolNamesInit /\ ToolSchemasInit
    /\ RestoreInit /\ TurnInit
    /\ part # "config" => /\ environ = NoFile /\ explicitFile = NoFile
                          /\ repo = NoFile /\ managed = NoFile /\ legacy = NoFile
    /\ ChoicesInit
    /\ part # "pool" => strategy = "sequential"
    /\ part # "catalog" => inForce.usable = {hosted, local}

TranslationNext ==
    /\ ChoicesNext
    /\ IF part = "stream" THEN StreamNext ELSE UNCHANGED streamVars
    /\ IF part = "assembly" THEN AssemblyNext ELSE UNCHANGED assemblyVars
    /\ IF part = "native" THEN NativeNext ELSE UNCHANGED nativeVars
    /\ IF part = "arguments" THEN ArgumentsNext ELSE UNCHANGED argumentVars
    /\ CASE part = "conversion" -> ConversionNext /\ UNCHANGED ownVars
         [] part = "policies" -> PolicyNext
         [] OTHER -> UNCHANGED policyVars
    /\ IF part = "names" THEN ToolNamesNext ELSE UNCHANGED toolNameVars
    /\ IF part = "schemas" THEN ToolSchemasNext ELSE UNCHANGED schemaVars
    /\ IF part = "restore" THEN RestoreNext ELSE UNCHANGED restoreVars
    /\ IF part = "turn" THEN TurnNext ELSE UNCHANGED turnVars

TranslationSpec == TranslationInit /\ [][TranslationNext]_translationVars

StreamsOnly == part = "stream" /\ TranslationSpec

-----------------------------------------------------------------------------
(* Each translation keeps its types; the others have not moved.             *)
TranslationTypeOK ==
    CASE part = "stream"     -> StreamTypeOK
      [] part = "assembly"   -> AssemblyTypeOK
      [] part = "native"     -> NativeTypeOK
      [] part = "arguments"  -> ArgumentsTypeOK
      [] part = "conversion" -> ConversionTypeOK
      [] part = "policies"   -> PolicyTypeOK
      [] part = "reasoning"  -> ReasoningTypeOK
      [] part = "names"      -> ToolNamesTypeOK
      [] part = "schemas"    -> ToolSchemasTypeOK
      [] part = "failure"    -> FailureTypeOK
      [] part = "pool"       -> PoolTypeOK
      [] part = "restore"    -> RestoreTypeOK
      [] part = "turn"       -> TurnTypeOK
      [] part = "config"     -> ConfigTypeOK
      [] part = "catalog"    -> CatalogTypeOK

(* What a stream sends is one well-formed answer, whatever is held back,    *)
(* asked for again or translated on the way (ledger.py, assembler.py).      *)
StreamsWellFormed ==
    /\ part = "stream" => StreamContract /\ OneAnswer /\ ToolInputsHonest
    /\ part = "assembly" => ResponsesContract

(* A call comes back to the tool it was made for, with its whole arguments  *)
(* under the client's names (tools.py, tool_schema.py, native_tool_*.py).   *)
ToolCallsWhole ==
    /\ part = "native" => NativeAnswer
    /\ part = "arguments" => ArgumentsWhole
    /\ part = "names" => ToolNamesKept
    /\ part = "schemas" => ToolSchemasKept

(* A client is offered the models there are, and its request says upstream  *)
(* what the client said (api/model_catalog.py, conversion.py, the request   *)
(* policies of the providers).                                              *)
RequestsFaithful ==
    /\ part = "conversion" => ConversionFaithful
    /\ part = "policies" => PoliciesFaithful
    /\ part = "catalog" => OffersExact

(* A turn tells what its process said, and a restart finds what was stored  *)
(* (transcript, node_event_pipeline.py, snapshots.py).                      *)
TurnsTold ==
    /\ part = "turn" => TurnTold
    /\ part = "restore" => RestoreExact
=============================================================================
