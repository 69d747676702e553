CONSTANT Families = {"deltas", "layers", "files", "damage", "archives", "archive damage", "morton",
                     "programs", "scopes", "layouts",
                     "bits", "numbers", "routes", "tables", "codes", "sums", "products",
                     "primes", "wide primes", "p256", "binary words", "binary elements",
                     "spectra", "extension", "ranges", "sextics", "quadratics", "auxiliary", "crt",
                     "cosets", "binary ranges", "spans",
                     "blocks", "messages", "paddings", "points", "signatures", "macs",
                     "headers", "first bytes", "nestings", "items", "documents", "presentations", "device messages",
                     "single hand", "rounds", "commitments", "responses", "openings", "geometries", "proofs",
                     "runs", "values", "wire"}
SPECIFICATION Spec
CHECK_DEADLOCK FALSE
PROPERTIES
  FilesFaithful CompilerFaithful LayoutsAgree CircuitsRight AlgebraRight CredentialsRight ProofsV2Right
