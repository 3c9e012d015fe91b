------------------------------ MODULE Feature ------------------------------
(***************************************************************************)
(* Feature gates of the native protocol, src/proto/feature.rs.  A feature  *)
(* is named by the first protocol version that has it; it is active on a   *)
(* connection whose negotiated version is not below that number.  Only the *)
(* gates the models read are listed.                                       *)
(***************************************************************************)
EXTENDS Integers

BLOCK_INFO == 51903
TIMEZONE == 54058
QUOTA_KEY_IN_CLIENT_INFO == 54060
DISPLAY_NAME == 54372
VERSION_PATCH == 54401
WRITE_CLIENT_INFO == 54420
SETTINGS_SERIALIZED_AS_STRINGS == 54429
INTERSERVER_SECRET == 54441
OPEN_TELEMETRY == 54442
DISTRIBUTED_DEPTH == 54448
INITIAL_QUERY_START_TIME == 54449
PARALLEL_REPLICAS == 54453
ADDENDUM == 54458
PARAMETERS == 54459
SERVER_QUERY_TIME_IN_PROGRESS == 54460
PASSWORD_COMPLEXITY_RULES == 54461
INTERSERVER_SECRET_V2 == 54462
TOTAL_BYTES_IN_PROGRESS == 54463
ROWS_BEFORE_AGGREGATION == 54469
CHUNKED_PROTOCOL == 54470
VERSIONED_PARALLEL_REPLICAS_PROTOCOL == 54471
INTERSERVER_EXTERNALLY_GRANTED_ROLES == 54472
SERVER_SETTINGS == 54474
QUERY_AND_LINE_NUMBERS == 54475
JWT_IN_INTERSERVER == 54476
QUERY_PLAN_SERIALIZATION == 54477
VERSIONED_CLUSTER_FUNCTION_PROTOCOL == 54479
COMPRESSED_LOGS_PROFILE_EVENTS_COLUMNS == 54481
PROGRESS_IN_ASYNC_INSERT == 54484

(* Feature::in_version *)
InVersion(feature, version) == version >= feature

(* The version the client declares in its ClientHello. *)
ClientVersion == PROGRESS_IN_ASYNC_INSERT

(* u64::min of the two declared versions (Connection::handsake). *)
Negotiated(client, server) == IF client <= server THEN client ELSE server
=============================================================================
