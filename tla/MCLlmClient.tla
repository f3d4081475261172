---------------------------- MODULE MCLlmClient ----------------------------
EXTENDS LlmClient

CONSTANTS big, small

\* LLM_MODEL=big and AGENT_LLM_MODEL=small, with LLM_FALLBACK_MODEL=small.
MCChains == {<<big, small>>, <<small, small>>}
MCModels == {big, small}
===========================================================================
