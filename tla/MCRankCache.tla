----------------------------- MODULE MCRankCache -----------------------------
EXTENDS RankCache
CONSTANTS loop, a, b, u, dev, group
MCApiCalls == {GetChatRank(u), GetGlobalBans, Ping}
MCCalls == MCApiCalls \union {AddGlobalBan(u), RemoveGlobalBan(u), IsGloballyBanned(u),
                              SetChatRank(u, 2), SetChatRank(u, 4)}

\* One of two instances: the calls about bans, or those about ranks.
VARIABLE about
MCInit == Init /\ about \in {"bans", "ranks"}
Instance(c) == c.op \in IF about = "bans"
  THEN {"addGlobalBan", "removeGlobalBan", "isGloballyBanned", "getGlobalBans", "ping"}
  ELSE {"setChatRank", "getChatRank"}
MCNext ==
  /\ Next
  /\ \A t \in Threads : call'[t] # NoCall => Instance(call'[t])
  /\ UNCHANGED about
MCSpec == MCInit /\ [][MCNext]_<<vars, about>>
          /\ WF_vars(\E t \in Threads : Work(t))
=============================================================================
