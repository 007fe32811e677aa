------------------------------ MODULE Settings ------------------------------
(***************************************************************************)
(* The settings a client may change, the values each may take, and the     *)
(* flags the engine gets for them: the tables of atlasctl-core's settings/ *)
(* and flags/ modules and the checks the protocol crate makes against      *)
(* them.                                                                   *)
(*                                                                         *)
(* A value is a record of its kind and its content.  A float is counted in *)
(* hundredths, the precision every float bound of the tables is written    *)
(* in.  Labels, help texts, units and groups are for the page and are left *)
(* out.                                                                    *)
(***************************************************************************)
EXTENDS Integers, Sequences, FiniteSets, TLC

\* One map laid over another: its own entries, and the other's where it has
\* none.
Over(f, g) ==
  [k \in DOMAIN f \cup DOMAIN g |-> IF k \in DOMAIN f THEN f[k] ELSE g[k]]

BoolVal(b)  == [kind |-> "bool",  v |-> b]
IntVal(n)   == [kind |-> "int",   v |-> n]
FloatVal(h) == [kind |-> "float", v |-> h]
StrVal(s)   == [kind |-> "str",   v |-> s]

\* The six shapes a bound may have.
IntBound(min, max)       == [kind |-> "int",   min |-> min, max |-> max]
FloatBound(min, max)     == [kind |-> "float", min |-> min, max |-> max]
IntOrAutoBound(min, max) == [kind |-> "int_or_auto", min |-> min, max |-> max]
EnumBound(variants)      == [kind |-> "enum", variants |-> variants]
ToggleBound              == [kind |-> "toggle"]
BoolValueBound           == [kind |-> "bool_value"]

(***************************************************************************)
(* The tables.                                                             *)
(***************************************************************************)
KV_DTYPES == {"bf16", "fp8", "nvfp4", "turbo4", "turbo3", "turbo2", "turbo8",
              "turbo4k_turbo3v", "turbo4k_turbo8v", "turbo3k_turbo8v",
              "bf16k_turbo4v", "bf16k_turbo3v", "fp8k_turbo4v",
              "fp8k_turbo3v", "bf16k_turbo2v", "fp8k_turbo2v"}
DTYPES         == {"bf16", "fp8", "nvfp4"}
LM_HEAD_DTYPES == {"default", "bf16", "nvfp4", "fp8"}
SSM_H_DTYPES   == {"f32", "f16", "f16-pool"}

EXPOSED ==
  [port                   |-> IntBound(1, 65535),
   tensor_parallel        |-> IntBound(1, 8),
   ep_size                |-> IntBound(1, 8),
   max_batch_size         |-> IntBound(1, 256),
   max_num_seqs           |-> IntBound(1, 256),
   max_prefill_tokens     |-> IntBound(256, 262144),
   max_num_batched_tokens |-> IntBound(256, 262144),
   scheduling_policy      |-> EnumBound({"fifo", "slai"}),
   tbt_deadline_ms        |-> IntBound(1, 10000),
   enable_prefix_caching  |-> ToggleBound]

EXPOSED_MEMORY ==
  [gpu_memory_utilization    |-> FloatBound(10, 95),
   max_model_len             |-> IntBound(256, 262144),
   kv_cache_dtype            |-> EnumBound(KV_DTYPES),
   kv_high_precision_layers  |-> IntOrAutoBound(0, 256),
   block_size                |-> EnumBound({"8", "16", "32", "64"}),
   oom_guard_mb              |-> IntBound(0, 16384),
   fp8_kv_calibration_tokens |-> IntBound(0, 65536),
   ssm_cache_slots           |-> IntBound(0, 4096),
   ssm_checkpoint_interval   |-> IntBound(1, 8192)]

EXPOSED_SPECULATIVE ==
  [speculative        |-> ToggleBound,
   self_speculative   |-> ToggleBound,
   ngram_speculative  |-> ToggleBound,
   dflash             |-> ToggleBound,
   num_drafts         |-> IntBound(1, 8),
   mtp_quantization   |-> EnumBound(DTYPES),
   dflash_gamma       |-> IntBound(1, 16),
   dflash_window_size |-> IntBound(1, 8192)]

EXPOSED_ENGINE ==
  [tool_max_tokens       |-> IntBound(64, 65536),
   disable_tool_grammar  |-> BoolValueBound,
   disable_thinking      |-> ToggleBound,
   max_thinking_budget   |-> IntBound(0, 262144),
   lm_head_dtype         |-> EnumBound(LM_HEAD_DTYPES),
   ssm_h_dtype           |-> EnumBound(SSM_H_DTYPES),
   gdn_fused_norm        |-> BoolValueBound,
   ssm_batched_recurrent |-> BoolValueBound,
   ssm_tail_midchunk     |-> BoolValueBound,
   prefill_varlen_batch  |-> BoolValueBound,
   mtp_gate              |-> EnumBound({"auto", "force"}),
   request_timeout       |-> IntBound(0, 86400)]

\* What a client may never send, whatever the value.
DENIED == {"host", "served_model_name", "mtp_vocab", "draft_model",
           "tool_call_parser", "model_from_path", "cache_dir", "gpu_ordinal",
           "api_key", "require_auth", "high_speed_swap",
           "high_speed_swap_dir", "high_speed_swap_gb",
           "high_speed_swap_resident_blocks", "high_speed_swap_rank",
           "high_speed_swap_qd", "high_speed_swap_cache_blocks_per_seq",
           "video_allow_ffmpeg"}

Schema ==
  Over(Over(EXPOSED, EXPOSED_MEMORY), Over(EXPOSED_SPECULATIVE, EXPOSED_ENGINE))

(***************************************************************************)
(* Checking a value.                                                       *)
(***************************************************************************)
Within(bound, n) == bound.min <= n /\ n <= bound.max

\* A whole number is a legitimate spelling of a float.
Hundredths(value) == IF value.kind = "int" THEN 100 * value.v ELSE value.v

\* What Bound::check answers Ok to.
Accepts(bound, value) ==
  \/ bound.kind = "int" /\ value.kind = "int" /\ Within(bound, value.v)
  \/ /\ bound.kind = "float"
     /\ value.kind \in {"int", "float"}
     /\ Within(bound, Hundredths(value))
  \/ bound.kind = "enum" /\ value.kind = "str" /\ value.v \in bound.variants
  \/ bound.kind \in {"toggle", "bool_value"} /\ value.kind = "bool"
  \/ /\ bound.kind = "int_or_auto"
     /\ \/ value.kind = "str" /\ value.v = "auto"
        \/ value.kind = "int" /\ Within(bound, value.v)

\* The value it answers with: re-rendered from what was parsed.
Normalized(bound, value) ==
  IF bound.kind = "float" THEN FloatVal(Hundredths(value)) ELSE value

\* What a client's settings are refused for, and what they come to.
Problems(requested) ==
  {key \in DOMAIN requested :
     key \in DOMAIN Schema => ~Accepts(Schema[key], requested[key])}
Validated(requested) ==
  [key \in DOMAIN requested |-> Normalized(Schema[key], requested[key])]

\* A value as the engine's command line spells it, and as a switch.
Render(value) ==
  CASE value.kind = "bool"  -> IF value.v THEN "true" ELSE "false"
    [] value.kind = "int"   -> ToString(value.v)
    [] value.kind = "float" -> ToString(value.v) \o "%"
    [] value.kind = "str"   -> value.v
Truthy(value) ==
  CASE value.kind = "bool" -> value.v
    [] value.kind \in {"int", "float"} -> value.v # 0
    [] value.kind = "str"  -> value.v # ""

\* What the command line accepts from -o: a key of the tables is held to its
\* bound once the value has been read the way the engine will read it, and
\* every other key, the denied ones too, goes through unchecked.
OverrideAccepted(key, value) ==
  key \in DOMAIN Schema =>
    LET bound == Schema[key] IN
    Accepts(bound,
            CASE bound.kind = "enum" -> StrVal(Render(value))
              [] bound.kind \in {"toggle", "bool_value"}
                   -> BoolVal(Truthy(value))
              [] OTHER -> value)

\* Above this share of memory a GB10 has frozen.
GB10_UTIL_CAUTION == 88
Cautioned(key, value, accelerator) ==
  /\ key = "gpu_memory_utilization"
  /\ accelerator = "gb10"
  /\ value.kind = "float"
  /\ value.v > GB10_UTIL_CAUTION

(***************************************************************************)
(* The engine's flags.  A key's flag is its own name but for five keys.    *)
(***************************************************************************)
TOGGLES == {"enable_prefix_caching", "speculative", "self_speculative",
            "ngram_speculative", "dflash", "disable_thinking",
            "high_speed_swap", "require_auth", "video_allow_ffmpeg"}
FlagKeys == DOMAIN Schema \cup DENIED
FlagOf(key) ==
  CASE key = "tensor_parallel"        -> "tp_size"
    [] key = "max_model_len"          -> "max_seq_len"
    [] key = "max_num_batched_tokens" -> "max_prefill_tokens"
    [] key = "served_model_name"      -> "model_name"
    [] key = "api_key"                -> "auth_token"
    [] OTHER                          -> key

\* Two keys set at once that are one flag.
AliasConflict(resolved) ==
  \E k1, k2 \in DOMAIN resolved \cap FlagKeys :
     k1 # k2 /\ FlagOf(k1) = FlagOf(k2)

\* The flags emitted, and the keys no flag claims.  A toggle is emitted
\* when it is on and carries no value.
ServeFlags(resolved, skip) ==
  {[key |-> key, flag |-> FlagOf(key),
    value |-> IF key \in TOGGLES THEN "" ELSE Render(resolved[key])] :
     key \in {k \in (DOMAIN resolved \cap FlagKeys) \ skip :
                k \in TOGGLES => Truthy(resolved[k])}}
Unmapped(resolved, skip) == DOMAIN resolved \ (FlagKeys \cup skip)
=============================================================================
