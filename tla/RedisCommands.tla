--------------------------- MODULE RedisCommands ---------------------------
(* The commands of the redis client (commands.go): the command object each  *)
(* method makes and passes to Process, which says how its reply is parsed,  *)
(* and the type of reply the server gives. The arguments are left out.      *)
EXTENDS RedisReply

----------------------------------------------------------------------------
ConnectionMethods ==
    [Auth |-> "Status", Echo |-> "String", Ping |-> "Status", Select |-> "Status"]

KeyMethods ==
    [Del |-> "Int", Dump |-> "String", Exists |-> "Bool", Expire |-> "Bool", ExpireAt |-> "Bool",
     Keys |-> "StringSlice", Migrate |-> "Status", Move |-> "Bool", ObjectRefCount |-> "Int",
     ObjectEncoding |-> "String", ObjectIdleTime |-> "Duration", Persist |-> "Bool",
     PExpire |-> "Bool", PExpireAt |-> "Bool", PTTL |-> "Duration", RandomKey |-> "String",
     Rename |-> "Status", RenameNX |-> "Bool", Restore |-> "Status"]

SortAndScanMethods ==
    [Sort |-> "StringSlice", TTL |-> "Duration", Type |-> "Status", Scan |-> "Scan",
     SScan |-> "Scan", HScan |-> "Scan", ZScan |-> "Scan"]

BitAndCounterMethods ==
    [Append |-> "Int", BitCount |-> "Int", BitOpAnd |-> "Int", BitOpOr |-> "Int", BitOpXor |-> "Int",
     BitOpNot |-> "Int", Decr |-> "Int", DecrBy |-> "Int", Get |-> "String", GetBit |-> "Int",
     GetRange |-> "String", GetSet |-> "String", Incr |-> "Int", IncrBy |-> "Int",
     IncrByFloat |-> "Float"]

StringMethods ==
    [MGet |-> "Slice", MSet |-> "Status", MSetNX |-> "Bool", PSetEx |-> "Status", Set |-> "Status",
     SetBit |-> "Int", SetEx |-> "Status", SetNX |-> "Bool", SetRange |-> "Int", StrLen |-> "Int"]

HashMethods ==
    [HDel |-> "Int", HExists |-> "Bool", HGet |-> "String", HGetAll |-> "StringSlice",
     HGetAllMap |-> "StringStringMap", HIncrBy |-> "Int", HIncrByFloat |-> "Float",
     HKeys |-> "StringSlice", HLen |-> "Int", HMGet |-> "Slice", HMSet |-> "Status",
     HSet |-> "Bool", HSetNX |-> "Bool", HVals |-> "StringSlice"]

ListMethods ==
    [BLPop |-> "StringSlice", BRPop |-> "StringSlice", BRPopLPush |-> "String", LIndex |-> "String",
     LInsert |-> "Int", LLen |-> "Int", LPop |-> "String", LPush |-> "Int", LPushX |-> "Int",
     LRange |-> "StringSlice", LRem |-> "Int", LSet |-> "Status", LTrim |-> "Status",
     RPop |-> "String", RPopLPush |-> "String", RPush |-> "Int", RPushX |-> "Int"]

SetMethods ==
    [SAdd |-> "Int", SCard |-> "Int", SDiff |-> "StringSlice", SDiffStore |-> "Int",
     SInter |-> "StringSlice", SInterStore |-> "Int", SIsMember |-> "Bool",
     SMembers |-> "StringSlice", SMove |-> "Bool", SPop |-> "String", SRandMember |-> "String",
     SRem |-> "Int", SUnion |-> "StringSlice", SUnionStore |-> "Int"]

SortedSetMethods ==
    [ZAdd |-> "Int", ZCard |-> "Int", ZCount |-> "Int", ZIncrBy |-> "Float", ZInterStore |-> "Int",
     ZRange |-> "StringSlice", ZRangeWithScores |-> "ZSlice", ZRangeByScore |-> "StringSlice",
     ZRangeByScoreWithScores |-> "ZSlice"]

RankMethods ==
    [ZRank |-> "Int", ZRem |-> "Int", ZRemRangeByRank |-> "Int", ZRemRangeByScore |-> "Int",
     ZRevRange |-> "StringSlice", ZRevRangeWithScores |-> "ZSlice",
     ZRevRangeByScore |-> "StringSlice", ZRevRangeByScoreWithScores |-> "ZSlice",
     ZRevRank |-> "Int", ZScore |-> "Float", ZUnionStore |-> "Int"]

ServerMethods ==
    [BgRewriteAOF |-> "Status", BgSave |-> "Status", ClientKill |-> "Status", ClientList |-> "String",
     ConfigGet |-> "Slice", ConfigResetStat |-> "Status", ConfigSet |-> "Status", DbSize |-> "Int",
     FlushAll |-> "Status", FlushDb |-> "Status", Info |-> "String", LastSave |-> "Int",
     Save |-> "Status", Shutdown |-> "Status", ShutdownSave |-> "Status",
     ShutdownNoSave |-> "Status", SlaveOf |-> "Status", Time |-> "StringSlice"]

ScriptMethods ==
    [Eval |-> "Cmd", EvalSha |-> "Cmd", ScriptExists |-> "BoolSlice", ScriptFlush |-> "Status",
     ScriptKill |-> "Status", ScriptLoad |-> "String", DebugObject |-> "String",
     PubSubChannels |-> "StringSlice", PubSubNumSub |-> "StringIntMap", PubSubNumPat |-> "Int"]

\* What Multi and PubSub add.
MultiMethods == [Watch |-> "Status", Unwatch |-> "Status"]
PublishMethods == [Publish |-> "Int"]

MethodGroups ==
    {ConnectionMethods, KeyMethods, SortAndScanMethods, BitAndCounterMethods, StringMethods,
     HashMethods, ListMethods, SetMethods, SortedSetMethods, RankMethods, ServerMethods,
     ScriptMethods, MultiMethods, PublishMethods}
Methods == UNION {DOMAIN group : group \in MethodGroups}

\* The command object of a method.
Kind == [m \in Methods |-> (CHOOSE group \in MethodGroups : m \in DOMAIN group)[m]]

----------------------------------------------------------------------------
\* The server's side. A SORT with GET may have nil elements, one with STORE
\* is answered with a count.
ServerType(m) ==
    CASE m \in {"Auth", "Ping", "Select", "Migrate", "Rename", "Restore", "Type", "MSet", "PSetEx",
                "Set", "SetEx", "HMSet", "LSet", "LTrim", "BgRewriteAOF", "BgSave", "ClientKill",
                "ConfigResetStat", "ConfigSet", "FlushAll", "FlushDb", "Save", "Shutdown",
                "ShutdownSave", "ShutdownNoSave", "SlaveOf", "ScriptFlush", "ScriptKill",
                "DebugObject", "Watch", "Unwatch"} -> "status"
      [] m \in {"Echo", "Dump", "ObjectEncoding", "RandomKey", "Get", "GetRange", "GetSet", "HGet",
                "BRPopLPush", "LIndex", "LPop", "RPop", "RPopLPush", "SPop", "SRandMember",
                "ClientList", "Info", "ScriptLoad"} -> "bulk"
      [] m \in {"ObjectRefCount", "ObjectIdleTime", "ZRank", "ZRevRank"} -> "rank"
      [] m \in {"IncrByFloat", "HIncrByFloat", "ZIncrBy", "ZScore"} -> "number"
      [] m \in {"Keys", "HGetAll", "HGetAllMap", "HKeys", "HVals", "BLPop", "BRPop", "LRange",
                "SDiff", "SInter", "SMembers", "SUnion", "ZRange", "ZRangeByScore", "ZRevRange",
                "ZRevRangeByScore", "ConfigGet", "Time", "PubSubChannels"} -> "strings"
      [] m \in {"MGet", "HMGet"} -> "optional strings"
      [] m = "ScriptExists" -> "integers"
      [] m = "PubSubNumSub" -> "counts"
      [] m \in {"ZRangeWithScores", "ZRangeByScoreWithScores", "ZRevRangeWithScores",
                "ZRevRangeByScoreWithScores"} -> "scored"
      [] m \in {"Scan", "SScan", "HScan", "ZScan"} -> "cursor"
      [] m \in {"Eval", "EvalSha"} -> "any"
      [] m = "Sort" -> "sorted"
      [] OTHER -> "integer"

----------------------------------------------------------------------------
\* A command that may leave part of its reply unread: SORT with GET or STORE,
\* and an array with an error inside.
Abandons(m, reply) == m = "Sort" \/ (\E i \in 2..Len(reply) : reply[i].t = "-")

\* Every reply of the server is parsed to its last token and without a panic,
\* and a part of it is taken for nothing but incomplete.
ReplyParsed(m, reply) ==
    ~Abandons(m, reply) =>
        /\ LET r == Parse(Kind[m], reply) IN r.err # "panic" /\ r.used = Len(reply)
        /\ \A k \in 0..Len(reply) - 1 : Parse(Kind[m], SubSeq(reply, 1, k)).err = "more"
=============================================================================
