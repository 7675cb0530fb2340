------------------------------ MODULE MCArenaUse ------------------------------
EXTENDS ArenaUse

MCPayloads == {<<>>, <<1>>, <<1, 2>>}
=============================================================================
