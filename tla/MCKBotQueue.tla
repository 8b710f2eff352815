----------------------------- MODULE MCKBotQueue -----------------------------
EXTENDS KBotQueue

\* One contact, and credit for two messages at most, the first from two grants.
MCContact == [j \in Jobs |-> "contact"]
MCAllowance == <<1, 3>>
=============================================================================
