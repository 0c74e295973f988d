SPECIFICATION Spec
CONSTANTS
    data = data
    bad = bad
    recipe = recipe
    recipe2 = recipe2
    layer = layer
    layer2 = layer2
    repo = repo
    tool = tool
    write = write
    c1 = c1
    c2 = c2
    Datasets = {data, bad}
    Disliked = {bad}
    Recipes = {recipe, recipe2}
    Layers = {layer, layer2}
    Repositories = {repo}
    Tools = {tool}
    Effects = {write}
    Shipped <- MCShipped
    Variants <- MCVariants
    Catalogue <- MCCatalogue
    Asked = {"lora-minimum"}
    Machines <- MCMachines
    Unreported = Unreported
    Workloads <- MCWorkloads
    Clients = {c1, c2}
    Ids = {a1, a2}
    MaxEdits = 2
CHECK_DEADLOCK FALSE
SYMMETRY Symmetry
INVARIANTS TypeOK NothingReady ManifestAsApproved SpendsAreHonoured
