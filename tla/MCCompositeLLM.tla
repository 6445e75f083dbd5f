--------------------------- MODULE MCCompositeLLM ---------------------------
(* Small instances of CompositeLLM: one local provider with cloud fallback. *)
EXTENDS CompositeLLM, TLC

CONSTANTS ollama, cloud

MCProviders == {ollama, cloud}
MCNames == <<cloud, ollama>>
MCChains == {<<ollama, cloud>>, <<cloud>>}
LocalOnly == {ollama}
LocalName == <<ollama>>
LocalChain == {<<ollama>>}
Interchangeable == Permutations(Callers)
=============================================================================
