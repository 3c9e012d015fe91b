------------------------------ MODULE MCPackets ------------------------------
(* Versions on both sides of every gate the packets have, and packets with  *)
(* the values that are easily taken for something else: empty strings,      *)
(* zeros, quotes, the largest number.                                       *)
EXTENDS Packets

Features ==
  {BLOCK_INFO, QUOTA_KEY_IN_CLIENT_INFO, VERSION_PATCH, WRITE_CLIENT_INFO,
   SETTINGS_SERIALIZED_AS_STRINGS, INTERSERVER_SECRET, OPEN_TELEMETRY, DISTRIBUTED_DEPTH,
   INITIAL_QUERY_START_TIME, PARALLEL_REPLICAS, PARAMETERS, SERVER_QUERY_TIME_IN_PROGRESS,
   TOTAL_BYTES_IN_PROGRESS, ROWS_BEFORE_AGGREGATION, INTERSERVER_EXTERNALLY_GRANTED_ROLES,
   QUERY_AND_LINE_NUMBERS, JWT_IN_INTERSERVER}

MCVersions == Features \cup {f - 1 : f \in Features} \cup {ClientVersion}

A == <<"a">>
Largest == 2^WordBits - 1

MCCharacters == {"a", "'", "0"}
UpToLength(n) == UNION {[1 .. k -> {"a", "'"}] : k \in 0 .. n}

MCSettings ==
  {<<>>} \cup {<<[key |-> k, flags |-> f, value |-> v]>> : k \in {<<>>, A}, f \in {0, 5}, v \in {<<>>, A}}
MCParams == {<<>>} \cup {<<[key |-> A, value |-> v]>> : v \in UpToLength(3)}
          \cup {<<[key |-> A, value |-> <<>>], [key |-> k, value |-> A]>> : k \in {<<>>, A}}

Info(kind, time, depth) ==
  [query_kind |-> kind, initial_user |-> A, initial_query_id |-> A, initial_address |-> <<>>,
   initial_time |-> time, query_interface |-> 1, os_user |-> <<>>, client_hostname |-> A,
   client_name |-> <<>>, version_major |-> 1, version_minor |-> 0, version_index |-> Largest,
   quota_key |-> <<<<>>>>, distributed_depth |-> depth, version_patch |-> <<0>>,
   collaborate_with_initiator |-> <<0>>, obsolete_count_participating_replicas |-> <<0>>,
   count_current_replicas |-> <<0>>, script_query_number |-> Absent, script_line_number |-> <<2>>]

Query(info, own, settings, secret, stage, compression, params) ==
  info @@ [protocol_version |-> own, kind |-> "Query", query_id |-> A, settings |-> settings,
           cluster_secret |-> secret, stage |-> stage, compression |-> compression, body |-> A, params |-> params]

MCQueries ==
  UNION {{Query(Info(1, <<0>>, <<0>>), own, s, <<>>, stage, c, <<>>)
            : s \in MCSettings, stage \in {0, 2}, c \in 0 .. 1}
         \cup {Query(Info(1, <<0>>, <<0>>), own, <<>>, A, 2, 0, p) : p \in MCParams}
         \cup {Query(Info(kind, time, depth), own, <<>>, <<>>, 2, 0, <<>>)
                 : kind \in 0 .. 2, time \in {<<0>>, Absent}, depth \in {<<1>>, Absent}}
         : own \in MCVersions}

MCInfos == [overflows : {0, 1}, bucket_number : {-1, 1}, out_of_order_buckets : {<<>>, <<1>>, <<2, 1>>}]
MCBlocks == {[columns |-> c, rows |-> n] : <<c, n>> \in
              {<<<<>>, 0>>, <<<<>>, 2>>, <<<<0>>, 0>>, <<<<2>>, 2>>, <<<<1, 1>>, 1>>}}

Counts == {0, 1, Largest}
MCOptions == {Absent, <<0>>, <<Largest>>}

MCOthers ==
  [kind : {"Block"}, info : {<<i>> : i \in MCInfos}, columns : MCBlocks]
  \cup [kind : {"ExternalTable"}, table_name : {<<>>, A}, info : {<<i>> : i \in MCInfos},
        columns : MCBlocks]
  \cup [kind : {"Progress"}, rows : Counts, bytes : {0, 4}, total_rows : {3}, total_bytes : MCOptions,
        wrote_rows : MCOptions, wrote_bytes : {<<2>>}, elapsed_ns : MCOptions]
  \cup [kind : {"ProfileInfo"}, rows : Counts, blocks : {1}, bytes : {16}, applied_limit : {0, 1},
        rows_before_limit : Counts, calculated_rows_before_limit : {1},
        applied_aggregation : {Absent, <<0>>, <<1>>}, rows_before_aggregation : MCOptions]
  \cup [kind : {"Exception"}, code : {-1, 0}, name : {<<>>, A}, message : {A}, stack_trace : {<<>>, A},
        nested : {0, 1}]
  \cup [kind : {"ClientHello"}, name : {<<>>, A}, version_major : {1}, version_minor : {0, 5},
        version_index : {Largest}, database : {<<>>, A}, user : {A}, password : {<<>>, A}]
  \cup [kind : {"TableColumns"}, external_table : {<<>>, A}, columns_description : {<<>>, A}]
  \cup [kind : {"TimezoneUpdate"}, timezone : {<<>>, A}]
=============================================================================
