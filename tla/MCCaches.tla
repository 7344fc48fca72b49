------------------------------ MODULE MCCaches ------------------------------
(* Small instances of RemoteCache.                                           *)
EXTENDS RemoteCache, TLC

CONSTANTS p1, p2, probe, k1, high, v1, v2

\* every option of a configuration good, and one that deviates
Good(os) == [o \in os |-> "good"]
Deviations(os) ==
  {Good(os)} \cup {[Good(os) EXCEPT ![o] = v] : o \in os, v \in {"absent", "empty", "wrong"}}

S3Options == {"bucket", "basepath", "region", "aws_access_key_id", "endpoint",
              "req_signing_host", "max_zoom", "session"}
GcsOptions == {"bucket", "basepath", "max_zoom", "client"}
AzOptions == {"container_url", "account_name", "shared_key", "read_only", "max_zoom"}
RedisConfigs ==
  LET os == {"uri", "network", "address", "password", "db", "ssl", "max_zoom", "ttl"}
  IN  Deviations(os)
      \cup {[c EXCEPT !["uri"] = "absent"] : c \in Deviations(os)}

AzConfigs ==
  LET cs == Deviations(AzOptions)
  IN  cs \cup {[c EXCEPT !["read_only"] = "absent"] : c \in cs}
         \cup {[c EXCEPT !["account_name"] = "empty"] : c \in cs}

Permissions == SUBSET {"set", "get", "purge"}
Everything  == {"set", "get", "purge"}

\* every configuration with every permission, and an accepted configuration of
\* each kind with each set of permissions
AllStarts ==
  LET S(kind, cs, ps) == [kind : {kind}, opts : cs, perms : ps]
      ttl == [o \in {"uri", "network", "address", "password", "db", "ssl", "max_zoom", "ttl"}
                |-> IF o \in {"uri", "ttl"} THEN "good" ELSE "absent"]
      az  == [Good(AzOptions) EXCEPT !["read_only"] = "absent"]
  IN  UNION {S("s3", Deviations(S3Options), {Everything}),
             S("gcs", Deviations(GcsOptions), {Everything}),
             S("azblob", AzConfigs, {Everything}),
             S("redis", RedisConfigs, {Everything}),
             S("s3", {Good(S3Options)}, Permissions),
             S("gcs", {Good(GcsOptions)}, Permissions),
             S("azblob", {Good(AzOptions), az}, Permissions),
             S("redis", {ttl}, Permissions)}
=============================================================================
