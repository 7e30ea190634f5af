CONSTANTS
  U32 = 2
  U64 = 4
  Xmm = 8
  Ymm = 16
  MaxLen = 64
  W = 4
  Tile = 2
  VCols = 4
  MaxBytes = 38
  MaxCols = 5
  Contracted = TRUE
  Kernels = {"gf16mat_prod_ref", "gf256mat_prod_ref",
             "gf16mat_prod_multab_sse", "gf16mat_prod_sse",
             "gf256mat_prod_multab_sse", "gf256mat_prod_sse",
             "gf16mat_prod_multab_neon", "gf16mat_prod_neon",
             "gf256mat_prod_multab_neon", "gf256mat_prod_neon",
             "gf16mat_prod_multab_avx2", "gf16mat_prod_avx2",
             "gf256mat_prod_multab_avx2", "gf256mat_prod_avx2",
             "gf16mat_prod_multab_gfni", "gf16mat_prod_gfni",
             "gf256mat_prod_avx2_gfni"}
  BackEnds = {"ref", "u64", "sse", "avx2", "gfni", "neon"}
  Columns = {0, 1, 44, 63, 71, 95}
  Side = 64
  Strides = {32, 48}
SPECIFICATION MCSpec
INVARIANTS OnceEach ProductRight StaysInside CallsKeepContract OperandsRight TransposeRight
CHECK_DEADLOCK FALSE
