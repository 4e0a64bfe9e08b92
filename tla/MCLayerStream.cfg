SPECIFICATION Spec
CONSTANTS
    Alignment = 2
    Models = {"m1", "m2"}
    Layers <- MCLayers
    Dirs <- MCDirs
    Nbytes <- MCNbytes
    OnePackage <- MCOnePackage
    Packages <- MCPackages
    Scripts = {"one", "three"}
    Repetitions = 2
INVARIANTS ManifestDescribes ComputedOwn LedgerSound
PROPERTIES Ends
